---- MODULE Spec2Model ----
(***************************************************************************)
(* State-machine model of the USPTO bulk-data ingestion pipeline.          *)
(*                                                                         *)
(*  - SpecOrch models USPTOOrchestrator.run_full_process together with the *)
(*    processing ledger (file_processing_history) and the destination      *)
(*    tables written by DatabaseController.save_batch                      *)
(*    (src/controllers/core/uspto_controllers.py) and the process exit     *)
(*    code of src/controllers/core/uspto_controller_runner.py.             *)
(*  - SpecCkpt models the checkpoint / staging-log resume logic of         *)
(*    USPTOStructuredProcessor (src/uspto_structured_processor.py).        *)
(***************************************************************************)
EXTENDS Integers, Sequences, FiniteSets, TLC

\* Bound on the number of pipeline runs (process invocations) explored.
MaxRuns == 2

\* run_full_process(max_files_per_product=2, ...)
MaxFilesPerProduct == 2

VARIABLES
    history,        \* file_processing_history: key -> [status, error_message]
    tables,         \* destination tables: product -> (natural id -> number of rows)
    extractedDirs,  \* keys whose extraction directory holds data files
    orch,           \* local state of the running run_full_process call
    results,        \* the results dict of run_full_process
    exitCode,       \* exit code of the last finished runner process
    runs,           \* number of runs started so far
    audit           \* history variables recording what the current run saw and did

orchVars == <<history, tables, extractedDirs, orch, results, exitCode, runs, audit>>

VARIABLES
    csv,            \* the rows of case_file.csv: a serial number, or 0 for none
    checkpoint,     \* <name>.checkpoint.json: [exists, partial, rows_read, saved_count]
    tmpfile,        \* <name>.checkpoint.json.tmp, same shape
    staging,        \* <name>.processed.jsonl: [exists, records]
    db,             \* serial numbers of the rows of trademark_case_files
    sp,             \* local state of the running USPTOStructuredProcessor call
    ck              \* history variables of the structured processor runs

ckVars == <<csv, checkpoint, tmpfile, staging, db, sp, ck>>

VARIABLES
    parse,          \* the running parser generator: input, settings, position
    emitted         \* the batches the generator has yielded so far

parseVars == <<parse, emitted>>

\* DatabaseController.save_batch (one call): its arguments, the live columns
\* of the destination table, the tuples the INSERT wrote and the result
VARIABLES load

loadVars == <<load>>

\* one application of the field normalizers to an input value or record
VARIABLES norm

normVars == <<norm>>

\* two pipeline runs working on the same (dataset, file) with one ledger
VARIABLES conc

concVars == <<conc>>

vars == <<orchVars, ckVars, parseVars, loadVars, normVars, concVars>>

-----------------------------------------------------------------------------
(* The catalog returned by get_trademark_datasets and the content of files *)

\* natural identifiers (serial_no, ...) occurring in the source files
NIds == {1, 2, 3}

\* products in the order the API returns them
Products == <<"TRCFECO2", "TRXGEN">>

\* product.files: the data files of each product, in catalog order
ProductFiles(p) ==
    IF p = "TRCFECO2" THEN <<"cf1.zip", "cf2.csv">> ELSE <<"gen1.zip">>

Keys ==
    UNION { { <<Products[i], ProductFiles(Products[i])[j]>> :
                j \in 1..Len(ProductFiles(Products[i])) } :
            i \in 1..Len(Products) }

\* file_info.filename.endswith('.zip')
IsZip(k) == k[2] \in {"cf1.zip", "gen1.zip"}

\* The data files found for a catalog file (find_data_files of the extraction
\* directory, or the single downloaded file), each given as the sequence of
\* batches _process_file yields for it; a batch is the set of natural
\* identifiers of its records.
DataFiles(k) ==
    IF k[2] = "cf1.zip" THEN << << {1, 2}, {3} >> >>
    ELSE IF k[2] = "cf2.csv" THEN << << {3} >> >>
    ELSE << << {1} >>, << {2} >> >>

-----------------------------------------------------------------------------
(* Processing ledger: DatabaseController over file_processing_history      *)

\* no row for (product_id, file_name): the entry is still pending
NoRow == [status |-> "none", error_message |-> "NULL"]

LedgerStates == {"none", "processing", "completed", "error"}

\* the lifecycle state the ledger reports for a key
LedgerState(h, k) == IF h[k].status = "none" THEN "pending" ELSE h[k].status

is_file_completed(h, k) == h[k].status = "completed"

is_product_completed_today(h, p) ==
    \E k \in Keys : k[1] = p /\ h[k].status = "completed"

has_existing_rows(t, p) == \E n \in NIds : t[p][n] > 0

mark_file_processing_downgrading(h, k) ==
    [h EXCEPT ![k] = [status |-> "processing", error_message |-> "NULL"]]

mark_file_processing(h, k) ==
    IF h[k].status = "completed"
    THEN h
    ELSE [h EXCEPT ![k] = [status |-> "processing", error_message |-> "NULL"]]

\* an error mark that writes nothing
mark_file_error_lost(h, k, msg) == h

\* UPDATE ... WHERE product_id = .. AND file_name = ..: no row, no effect
mark_file_error(h, k, msg) ==
    IF h[k].status = "none"
    THEN h
    ELSE [h EXCEPT ![k] = [status |-> "error", error_message |-> msg]]

\* INSERT ... 'completed' ON CONFLICT DO UPDATE SET status = 'completed'
upsert_file_completed(h, k) ==
    IF h[k].status = "none"
    THEN [h EXCEPT ![k] = [status |-> "completed", error_message |-> "NULL"]]
    ELSE [h EXCEPT ![k].status = "completed"]

-----------------------------------------------------------------------------
(* Destination tables: _create_product_table and save_batch                *)

\* _create_product_table: the table kind chosen from the product id
TableKind(p) ==
    IF p \in {"TRCFECO2", "TRTDXFAP", "TRTYRAP"} THEN "case_file"
    ELSE IF p \in {"TRASECO", "TRTDXFAG", "TRTYRAG"} THEN "assignment"
    ELSE IF p \in {"TTABTDXF", "TTABYR"} THEN "ttab"
    ELSE "generic"

\* whether the table declares a UNIQUE natural-identifier column
\* (serial_no, assignment_id, proceeding_number); the generic table has
\* only its SERIAL primary key
HasUniqueKey(kind) == kind \in {"case_file", "assignment", "ttab"}

EmptyTable == [n \in NIds |-> 0]

\* INSERT INTO table (...) VALUES ... ON CONFLICT DO NOTHING
InsertOnConflictDoNothing(rows, batch, kind) ==
    [n \in NIds |->
        IF n \notin batch THEN rows[n]
        ELSE IF HasUniqueKey(kind)
             THEN (IF rows[n] = 0 THEN 1 ELSE rows[n])
             ELSE rows[n] + 1]

\* save_batch on success: the rows of the product's table afterwards
save_batch(t, p, batch) ==
    [t EXCEPT ![p] = InsertOnConflictDoNothing(t[p], batch, TableKind(p))]

-----------------------------------------------------------------------------
(* USPTOOrchestrator.run_full_process                                      *)

\* operator-supplied only_products / skip_products filters
FilterChoices ==
    { [only |-> {}, skip |-> {}],
      [only |-> {"TRCFECO2"}, skip |-> {}],
      [only |-> {}, skip |-> {"TRCFECO2"}] }

IdleOrch ==
    [pc |-> "idle", force |-> FALSE, only |-> {}, skip |-> {},
     pidx |-> 1, fidx |-> 1, didx |-> 1, bidx |-> 1, path |-> "none"]

NoResults == [success |-> FALSE, files_processed |-> 0, errors |-> 0]

NoAudit ==
    [startHistory |-> [k \in Keys |-> NoRow],
     startTables |-> [p \in {"TRCFECO2", "TRXGEN"} |-> EmptyTable],
     attempted |-> {}, loaded |-> {}, batchFailed |-> {}, errored |-> {},
     interrupted |-> FALSE]

NoHistory == [k \in Keys |-> NoRow]

NoTables == [p \in {"TRCFECO2", "TRXGEN"} |-> EmptyTable]

CurProduct == Products[orch.pidx]

\* files_to_process = product.files[:max_files_per_product]
FilesToProcess(p) ==
    SubSeq(ProductFiles(p), 1,
           IF Len(ProductFiles(p)) < MaxFilesPerProduct
           THEN Len(ProductFiles(p)) ELSE MaxFilesPerProduct)

CurKey == <<CurProduct, FilesToProcess(CurProduct)[orch.fidx]>>

Running == orch.pc \notin {"idle", "done"}

\* a controller that ignores the operator's filters
FilteredOutNever(p) == FALSE

\* the product is removed by the only_products / skip_products filters
FilteredOut(p) ==
    \/ orch.only # {} /\ p \notin orch.only
    \/ orch.skip # {} /\ p \in orch.skip

\* product-level skip: completed before, or its table already has rows
ProductSkipNever(h, t, p) == FALSE

ProductSkip(h, t, p) ==
    is_product_completed_today(h, p) \/ has_existing_rows(t, p)

\* a runner process starts and run_full_process begins with the catalog
StartRun ==
    /\ orch.pc \in {"idle", "done"}
    /\ runs < MaxRuns
    /\ \E f \in BOOLEAN, flt \in FilterChoices :
          orch' = [IdleOrch EXCEPT !.pc = "product", !.force = f,
                                   !.only = flt.only, !.skip = flt.skip]
    /\ results' = NoResults
    /\ runs' = runs + 1
    /\ audit' = [NoAudit EXCEPT !.startHistory = history, !.startTables = tables]
    /\ UNCHANGED <<history, tables, extractedDirs, exitCode>>

\* get_trademark_datasets returns nothing: "No datasets found" is raised and
\* caught by the outer handler, results['success'] stays False
NoDatasets ==
    /\ orch.pc \in {"idle", "done"}
    /\ runs < MaxRuns
    /\ orch' = [IdleOrch EXCEPT !.pc = "return"]
    /\ results' = [NoResults EXCEPT !.errors = 1]
    /\ runs' = runs + 1
    /\ audit' = [NoAudit EXCEPT !.startHistory = history, !.startTables = tables]
    /\ UNCHANGED <<history, tables, extractedDirs, exitCode>>

\* the product loop is over: results['success'] = True
ProductsExhausted ==
    /\ orch.pc = "product"
    /\ orch.pidx > Len(Products)
    /\ results' = [results EXCEPT !.success = TRUE]
    /\ orch' = [orch EXCEPT !.pc = "return"]
    /\ UNCHANGED <<history, tables, extractedDirs, exitCode, runs, audit>>

FilterProduct ==
    /\ orch.pc = "product"
    /\ orch.pidx <= Len(Products)
    /\ FilteredOut(CurProduct)
    /\ orch' = [orch EXCEPT !.pidx = @ + 1]
    /\ UNCHANGED <<history, tables, extractedDirs, results, exitCode, runs, audit>>

SkipProduct ==
    /\ orch.pc = "product"
    /\ orch.pidx <= Len(Products)
    /\ ~FilteredOut(CurProduct)
    /\ ~orch.force
    /\ ProductSkip(history, tables, CurProduct)
    /\ orch' = [orch EXCEPT !.pidx = @ + 1]
    /\ UNCHANGED <<history, tables, extractedDirs, results, exitCode, runs, audit>>

EnterProduct ==
    /\ orch.pc = "product"
    /\ orch.pidx <= Len(Products)
    /\ ~FilteredOut(CurProduct)
    /\ orch.force \/ ~ProductSkip(history, tables, CurProduct)
    /\ orch' = [orch EXCEPT !.pc = "file", !.fidx = 1]
    /\ UNCHANGED <<history, tables, extractedDirs, results, exitCode, runs, audit>>

FilesExhausted ==
    /\ orch.pc = "file"
    /\ orch.fidx > Len(FilesToProcess(CurProduct))
    /\ orch' = [orch EXCEPT !.pc = "product", !.pidx = @ + 1]
    /\ UNCHANGED <<history, tables, extractedDirs, results, exitCode, runs, audit>>

\* file-level skip check: a completed file counts as processed and is skipped
CheckFile ==
    /\ orch.pc = "file"
    /\ orch.fidx <= Len(FilesToProcess(CurProduct))
    /\ IF ~orch.force /\ is_file_completed(history, CurKey)
       THEN /\ results' = [results EXCEPT !.files_processed = @ + 1]
            /\ orch' = [orch EXCEPT !.fidx = @ + 1]
            /\ audit' = audit
       ELSE /\ results' = results
            /\ orch' = [orch EXCEPT !.pc = "acquire"]
            /\ audit' = [audit EXCEPT !.attempted = @ \cup {CurKey}]
    /\ UNCHANGED <<history, tables, extractedDirs, exitCode, runs>>

\* check_extracted_files_exist finds the extraction directory of the zip
UseExtracted ==
    /\ orch.pc = "acquire"
    /\ IsZip(CurKey) /\ CurKey \in extractedDirs
    /\ orch' = [orch EXCEPT !.pc = "mark", !.path = "extracted"]
    /\ UNCHANGED <<history, tables, extractedDirs, results, exitCode, runs, audit>>

NeedsDownload == ~(IsZip(CurKey) /\ CurKey \in extractedDirs)

\* download_file returns None: the error is recorded, the file is left alone
DownloadFails ==
    /\ orch.pc = "acquire"
    /\ NeedsDownload
    /\ results' = [results EXCEPT !.errors = @ + 1]
    /\ orch' = [orch EXCEPT !.pc = "file", !.fidx = @ + 1]
    /\ UNCHANGED <<history, tables, extractedDirs, exitCode, runs, audit>>

\* download_file raises (product_dir.mkdir is outside its try block)
DownloadRaises ==
    /\ orch.pc = "acquire"
    /\ NeedsDownload
    /\ orch' = [orch EXCEPT !.pc = "except"]
    /\ UNCHANGED <<history, tables, extractedDirs, results, exitCode, runs, audit>>

\* the zip is downloaded and extract_zip_file returns the directory
ExtractOk ==
    /\ orch.pc = "acquire"
    /\ NeedsDownload /\ IsZip(CurKey)
    /\ extractedDirs' = extractedDirs \cup {CurKey}
    /\ orch' = [orch EXCEPT !.pc = "mark", !.path = "extracted"]
    /\ UNCHANGED <<history, tables, results, exitCode, runs, audit>>

\* the zip is downloaded but extract_zip_file returns None: neither
\* processing branch is taken and control falls through to the completion
ExtractFails ==
    /\ orch.pc = "acquire"
    /\ NeedsDownload /\ IsZip(CurKey)
    /\ orch' = [orch EXCEPT !.pc = "complete", !.path = "none"]
    /\ UNCHANGED <<history, tables, extractedDirs, results, exitCode, runs, audit>>

\* a file that is no zip is processed as downloaded
DownloadSingle ==
    /\ orch.pc = "acquire"
    /\ NeedsDownload /\ ~IsZip(CurKey)
    /\ orch' = [orch EXCEPT !.pc = "mark", !.path = "single"]
    /\ UNCHANGED <<history, tables, extractedDirs, results, exitCode, runs, audit>>

MarkProcessing ==
    /\ orch.pc = "mark"
    /\ history' = mark_file_processing(history, CurKey)
    /\ orch' = [orch EXCEPT !.pc = IF orch.path = "extracted" THEN "find" ELSE "batches",
                            !.didx = 1, !.bidx = 1]
    /\ UNCHANGED <<tables, extractedDirs, results, exitCode, runs, audit>>

FindDataFiles ==
    /\ orch.pc = "find"
    /\ orch' = [orch EXCEPT !.pc = "batches", !.didx = 1, !.bidx = 1]
    /\ UNCHANGED <<history, tables, extractedDirs, results, exitCode, runs, audit>>

\* walking the extraction directory raises (OSError)
FindDataFilesRaises ==
    /\ orch.pc = "find"
    /\ orch' = [orch EXCEPT !.pc = "except"]
    /\ UNCHANGED <<history, tables, extractedDirs, results, exitCode, runs, audit>>

HasBatch ==
    /\ orch.didx <= Len(DataFiles(CurKey))
    /\ orch.bidx <= Len(DataFiles(CurKey)[orch.didx])

CurBatch == DataFiles(CurKey)[orch.didx][orch.bidx]

\* save_batch returns success
SaveBatchOk ==
    /\ orch.pc = "batches"
    /\ HasBatch
    /\ tables' = save_batch(tables, CurProduct, CurBatch)
    /\ orch' = [orch EXCEPT !.bidx = @ + 1]
    /\ audit' = [audit EXCEPT !.loaded = @ \cup {CurKey}]
    /\ UNCHANGED <<history, extractedDirs, results, exitCode, runs>>

\* save_batch catches a database error and returns success=False
SaveBatchFails ==
    /\ orch.pc = "batches"
    /\ HasBatch
    /\ results' = [results EXCEPT !.errors = @ + 1]
    /\ orch' = [orch EXCEPT !.bidx = @ + 1]
    /\ audit' = [audit EXCEPT !.loaded = @ \cup {CurKey},
                              !.batchFailed = @ \cup {CurKey}]
    /\ UNCHANGED <<history, tables, extractedDirs, exitCode, runs>>

NextDataFile ==
    /\ orch.pc = "batches"
    /\ orch.didx <= Len(DataFiles(CurKey))
    /\ orch.bidx > Len(DataFiles(CurKey)[orch.didx])
    /\ orch' = [orch EXCEPT !.didx = @ + 1, !.bidx = 1]
    /\ UNCHANGED <<history, tables, extractedDirs, results, exitCode, runs, audit>>

BatchesDone ==
    /\ orch.pc = "batches"
    /\ orch.didx > Len(DataFiles(CurKey))
    /\ orch' = [orch EXCEPT !.pc = "complete"]
    /\ UNCHANGED <<history, tables, extractedDirs, results, exitCode, runs, audit>>

\* "Mark file completed with today's date"
MarkCompleted ==
    /\ orch.pc = "complete"
    /\ history' = upsert_file_completed(history, CurKey)
    /\ results' = [results EXCEPT !.files_processed = @ + 1]
    /\ orch' = [orch EXCEPT !.pc = "file", !.fidx = @ + 1]
    /\ UNCHANGED <<tables, extractedDirs, exitCode, runs, audit>>

\* the per-file except clause
HandleFileException ==
    /\ orch.pc = "except"
    /\ history' = mark_file_error(history, CurKey, "err")
    /\ results' = [results EXCEPT !.errors = @ + 1]
    /\ orch' = [orch EXCEPT !.pc = "file", !.fidx = @ + 1]
    /\ audit' = [audit EXCEPT !.errored = @ \cup {CurKey}]
    /\ UNCHANGED <<tables, extractedDirs, exitCode, runs>>

\* exit(0 if success else 1) with success = results['success']
ExitCodeOf(res) == IF res.success THEN 0 ELSE 1

ReturnRun ==
    /\ orch.pc = "return"
    /\ exitCode' = ExitCodeOf(results)
    /\ orch' = [orch EXCEPT !.pc = "done"]
    /\ UNCHANGED <<history, tables, extractedDirs, results, runs, audit>>

\* KeyboardInterrupt: run_controller_processor returns False, exit(1)
Interrupt ==
    /\ Running
    /\ exitCode' = 1
    /\ orch' = [orch EXCEPT !.pc = "done"]
    /\ audit' = [audit EXCEPT !.interrupted = TRUE]
    /\ UNCHANGED <<history, tables, extractedDirs, results, runs>>

-----------------------------------------------------------------------------
(* USPTOStructuredProcessor: checkpoint, staging log and resume            *)

\* Bound on the number of structured-processor runs explored.
MaxCkRuns == 3

\* Largest USPTO_CSV_CHUNKSIZE explored (rows per pandas chunk).
MaxChunkSize == 3

\* USPTO_DB_BATCH_SIZE explored: rows per INSERT statement of save_case_files_to_db.
DbBatchSize == 2

ChunkSizes == 1..MaxChunkSize

\* the case_file.csv files explored; 0 stands for a row without serial_no
CsvFiles == { <<1, 2, 3>>, <<0, 0, 1, 2>>, <<1, 2, 0, 3>>, <<0, 0>> }

Min(a, b) == IF a < b THEN a ELSE b

Range(s) == { s[i] : i \in 1..Len(s) }

\* partial: the file holds only a prefix of the JSON document
NoCheckpoint == [exists |-> FALSE, partial |-> FALSE, rows_read |-> 0, saved_count |-> 0]

NoStaging == [exists |-> FALSE, records |-> <<>>]

\* pd.read_csv(..., chunksize=chunk_size): the chunk that starts after `pos` rows
ReadChunkAt(rows, pos, cs) == SubSeq(rows, pos + 1, Min(pos + cs, Len(rows)))

\* the rows of a chunk that become case_file records: those with a serial number
ChunkRecords(chunk) == SelectSeq(chunk, LAMBDA r : r # 0)

\* the Python slice s[-n:]
LastN(s, n) ==
    IF n = 0 \/ n >= Len(s) THEN s ELSE SubSeq(s, Len(s) - n + 1, Len(s))

\* df_chunk.iloc[skip:]
DropFirst(s, n) == SubSeq(s, n + 1, Len(s))

\* "skip this entire chunk"
SkipsWholeChunk(checkpoint_rows, rows_read, len) ==
    checkpoint_rows # 0 /\ rows_read + len <= checkpoint_rows

\* "partially skip rows from the start of this chunk"
PartialSkip(checkpoint_rows, rows_read) ==
    IF checkpoint_rows # 0 /\ rows_read < checkpoint_rows
    THEN checkpoint_rows - rows_read
    ELSE 0

\* load_checkpoint: the document, or None (NoCheckpoint) when the file is
\* missing or json.load raises
load_checkpoint(cp) == IF cp.exists /\ ~cp.partial THEN cp ELSE NoCheckpoint

\* checkpoint.get('rows_read', 0) if checkpoint else 0, and saved_count alike
LoadedRows(cp) == load_checkpoint(cp).rows_read
LoadedSaved(cp) == load_checkpoint(cp).saved_count

\* append_processed_records: nothing is written for an empty list
append_processed_records(st, recs) ==
    IF recs = <<>> THEN st
    ELSE [exists |-> TRUE, records |-> st.records \o recs]

\* a checkpoint writer that records no progress
save_checkpoint_stale(rows_read, saved_count) ==
    [exists |-> TRUE, partial |-> FALSE, rows_read |-> 0, saved_count |-> saved_count]

\* save_checkpoint: the document {'rows_read': ..., 'saved_count': ...}
save_checkpoint(rows_read, saved_count) ==
    [exists |-> TRUE, partial |-> FALSE, rows_read |-> rows_read, saved_count |-> saved_count]

\* a writer that dumps the document straight into the checkpoint file
open_and_dump_in_place(cp, tmp, data) ==
    [cp |-> [data EXCEPT !.partial = TRUE], tmp |-> tmp]

\* with open(tmp, 'w') as fh: json.dump(data, fh) -- while the dump is under
\* way the file at tmp holds a prefix of the document; cp is not touched
open_and_dump(cp, tmp, data) ==
    [cp |-> cp, tmp |-> [data EXCEPT !.partial = TRUE]]

\* the dump is finished and the with block has closed the file
close_dumped(f) == IF f.exists THEN [f EXCEPT !.partial = FALSE] ELSE f

\* os.replace(tmp, cp): an atomic rename; FileNotFoundError (caught and
\* logged by save_checkpoint) when there is no file at tmp
os_replace(cp, tmp) ==
    IF tmp.exists THEN [cp |-> tmp, tmp |-> NoCheckpoint] ELSE [cp |-> cp, tmp |-> tmp]

\* load_processed_records
load_processed_records(st) == IF st.exists THEN st.records ELSE <<>>

\* save_case_files_to_db sends the records in statements of DbBatchSize rows
NumDbBatches(recs) == (Len(recs) + DbBatchSize - 1) \div DbBatchSize

DbBatch(recs, j) ==
    SubSeq(recs, (j - 1) * DbBatchSize + 1, Min(j * DbBatchSize, Len(recs)))

\* INSERT ... ON CONFLICT (serial_number) DO UPDATE rejects a statement that
\* proposes the same serial_number twice
StatementAccepted(batch) ==
    \A i, j \in 1..Len(batch) : batch[i] = batch[j] => i = j

\* the database accepts every statement of the save
SaveCanSucceed(recs) ==
    \A j \in 1..NumDbBatches(recs) : StatementAccepted(DbBatch(recs, j))

\* rows committed when the save raises at statement j (those before it)
CommittedBefore(recs, j) ==
    UNION { Range(DbBatch(recs, i)) : i \in 1..(j - 1) }

\* resume_from_processed_file clears only "if saved and saved > 0"
ShouldClearAlways(saved) == TRUE

ShouldClear(saved) == saved > 0

IdleSp ==
    [pc |-> "idle", chunk_size |-> 1, pos |-> 0, rows_read |-> 0,
     case_files |-> <<>>, checkpoint_rows |-> 0, checkpoint_saved |-> 0,
     chunk |-> <<>>, final |-> FALSE]

NoCk ==
    [runs |-> 0, crashes |-> 0, faults |-> 0, staged |-> {}, lastCrashed |-> FALSE,
     inSave |-> FALSE, prevCheckpoint |-> NoCheckpoint, newCheckpoint |-> NoCheckpoint]

\* where control goes when resume_from_processed_file returns
AfterResume == IF sp.final THEN "finalsave" ELSE "done"

\* a start that parses the CSV whatever is on disk
StartPcAlwaysRead(st) == "read"

\* "If there is a processed JSONL file (incomplete previous run), resume from it"
StartPc(st) == IF st.exists THEN "resume" ELSE "read"

\* process_all_case_files / main --path reaches the file: an existing
\* staging log is resumed from, otherwise the CSV is parsed
CkStartRun ==
    /\ sp.pc \in {"idle", "done", "crashed"}
    /\ ck.runs < MaxCkRuns
    /\ \E cs \in ChunkSizes :
          sp' = [IdleSp EXCEPT !.pc = StartPc(staging),
                               !.chunk_size = cs,
                               !.checkpoint_rows = LoadedRows(checkpoint),
                               !.checkpoint_saved = LoadedSaved(checkpoint)]
    /\ ck' = [ck EXCEPT !.runs = @ + 1, !.lastCrashed = FALSE, !.inSave = FALSE]
    /\ UNCHANGED <<csv, tmpfile, checkpoint, staging, db>>

NextChunk == ReadChunkAt(csv, sp.pos, sp.chunk_size)

\* the chunk lies wholly before the checkpoint
SkipChunk ==
    /\ sp.pc = "read"
    /\ sp.pos < Len(csv)
    /\ SkipsWholeChunk(sp.checkpoint_rows, sp.rows_read, Len(NextChunk))
    /\ sp' = [sp EXCEPT !.pos = @ + Len(NextChunk),
                        !.rows_read = @ + Len(NextChunk)]
    /\ UNCHANGED <<csv, tmpfile, checkpoint, staging, db, ck>>

\* the chunk is trimmed, its rows are converted and rows_read is advanced
ParseChunk ==
    /\ sp.pc = "read"
    /\ sp.pos < Len(csv)
    /\ ~SkipsWholeChunk(sp.checkpoint_rows, sp.rows_read, Len(NextChunk))
    /\ LET df_chunk == DropFirst(NextChunk, PartialSkip(sp.checkpoint_rows, sp.rows_read))
       IN  sp' = [sp EXCEPT !.pos = @ + Len(NextChunk),
                            !.chunk = df_chunk,
                            !.case_files = @ \o ChunkRecords(df_chunk),
                            !.rows_read = @ + Len(df_chunk),
                            !.pc = "append"]
    /\ UNCHANGED <<csv, tmpfile, checkpoint, staging, db, ck>>

\* append_processed_records(csv_file_path, case_files[-rows_in_chunk:])
AppendStaged ==
    /\ sp.pc = "append"
    /\ LET recs == LastN(sp.case_files, Len(sp.chunk))
       IN  /\ staging' = append_processed_records(staging, recs)
           /\ ck' = [ck EXCEPT !.staged = @ \cup Range(recs)]
    /\ sp' = [sp EXCEPT !.pc = "ckpt"]
    /\ UNCHANGED <<csv, tmpfile, checkpoint, db>>

\* save_checkpoint(csv_file_path, rows_read, checkpoint_saved): the temporary
\* file is opened and json.dump starts writing the document
SaveCheckpointOpen ==
    /\ sp.pc = "ckpt"
    /\ LET data == save_checkpoint(sp.rows_read, sp.checkpoint_saved)
           files == open_and_dump(checkpoint, tmpfile, data)
       IN  /\ checkpoint' = files.cp
           /\ tmpfile' = files.tmp
           /\ ck' = [ck EXCEPT !.prevCheckpoint = checkpoint, !.newCheckpoint = data]
    /\ sp' = [sp EXCEPT !.pc = "ckpt_dump"]
    /\ UNCHANGED <<csv, staging, db>>

\* json.dump returns and the file is closed
SaveCheckpointDumped ==
    /\ sp.pc = "ckpt_dump"
    /\ tmpfile' = close_dumped(tmpfile)
    /\ sp' = [sp EXCEPT !.pc = "ckpt_replace"]
    /\ UNCHANGED <<csv, checkpoint, staging, db, ck>>

\* os.replace(tmp, cp)
SaveCheckpointReplace ==
    /\ sp.pc = "ckpt_replace"
    /\ LET files == os_replace(checkpoint, tmpfile)
       IN  /\ checkpoint' = files.cp
           /\ tmpfile' = files.tmp
    /\ sp' = [sp EXCEPT !.pc = "read"]
    /\ UNCHANGED <<csv, staging, db, ck>>

\* the reader is exhausted: "Always attempt to save processed JSONL to DB"
EndOfFile ==
    /\ sp.pc = "read"
    /\ sp.pos >= Len(csv)
    /\ sp' = [sp EXCEPT !.pc = "resume", !.final = TRUE]
    /\ UNCHANGED <<csv, tmpfile, checkpoint, staging, db, ck>>

\* resume_from_processed_file finds no records
ResumeNothing ==
    /\ sp.pc = "resume"
    /\ load_processed_records(staging) = <<>>
    /\ sp' = [sp EXCEPT !.pc = AfterResume]
    /\ UNCHANGED <<csv, tmpfile, checkpoint, staging, db, ck>>

\* resume_from_processed_file: save_case_files_to_db saved all the records
ResumeSaveOk ==
    /\ sp.pc = "resume"
    /\ load_processed_records(staging) # <<>>
    /\ SaveCanSucceed(load_processed_records(staging))
    /\ db' = db \cup Range(load_processed_records(staging))
    /\ sp' = [sp EXCEPT !.pc = IF ShouldClear(Len(load_processed_records(staging)))
                                THEN "clear_checkpoint" ELSE AfterResume]
    /\ UNCHANGED <<csv, tmpfile, checkpoint, staging, ck>>

\* resume_from_processed_file: save_case_files_to_db caught an error at some
\* statement and returned 0; the statements before it stay committed
ResumeSaveFails ==
    /\ sp.pc = "resume"
    /\ load_processed_records(staging) # <<>>
    /\ \E j \in 1..NumDbBatches(load_processed_records(staging)) :
          /\ \A i \in 1..(j - 1) :
                StatementAccepted(DbBatch(load_processed_records(staging), i))
          /\ db' = db \cup CommittedBefore(load_processed_records(staging), j)
    /\ sp' = [sp EXCEPT !.pc = IF ShouldClear(0) THEN "clear_checkpoint" ELSE AfterResume]
    /\ ck' = [ck EXCEPT !.faults =
                 IF SaveCanSucceed(load_processed_records(staging)) THEN @ + 1 ELSE @]
    /\ UNCHANGED <<csv, tmpfile, checkpoint, staging>>

\* clear_checkpoint_and_processed removes the checkpoint file first
ClearCheckpoint ==
    /\ sp.pc = "clear_checkpoint"
    /\ checkpoint' = NoCheckpoint
    /\ sp' = [sp EXCEPT !.pc = "clear_staging"]
    /\ UNCHANGED <<csv, tmpfile, staging, db, ck>>

\* ... and the staging log second
ClearStaging ==
    /\ sp.pc = "clear_staging"
    /\ staging' = NoStaging
    /\ sp' = [sp EXCEPT !.pc = AfterResume]
    /\ UNCHANGED <<csv, tmpfile, checkpoint, db, ck>>

\* the caller saves the returned case_files: save_case_files_to_db(case_files)
FinalSaveOk ==
    /\ sp.pc = "finalsave"
    /\ SaveCanSucceed(sp.case_files)
    /\ db' = db \cup Range(sp.case_files)
    /\ sp' = [sp EXCEPT !.pc = "done"]
    /\ UNCHANGED <<csv, tmpfile, checkpoint, staging, ck>>

FinalSaveFails ==
    /\ sp.pc = "finalsave"
    /\ \E j \in 1..NumDbBatches(sp.case_files) :
          /\ \A i \in 1..(j - 1) : StatementAccepted(DbBatch(sp.case_files, i))
          /\ db' = db \cup CommittedBefore(sp.case_files, j)
    /\ sp' = [sp EXCEPT !.pc = "done"]
    /\ ck' = [ck EXCEPT !.faults = IF SaveCanSucceed(sp.case_files) THEN @ + 1 ELSE @]
    /\ UNCHANGED <<csv, tmpfile, checkpoint, staging>>

\* the process is interrupted or killed: its memory is lost, the files stay
CkCrash ==
    /\ sp.pc \notin {"idle", "done", "crashed"}
    /\ sp' = [IdleSp EXCEPT !.pc = "crashed"]
    /\ ck' = [ck EXCEPT !.crashes = @ + 1, !.lastCrashed = TRUE,
                       !.inSave = sp.pc \in {"ckpt_dump", "ckpt_replace"}]
    /\ UNCHANGED <<csv, tmpfile, checkpoint, staging, db>>

-----------------------------------------------------------------------------
(* Parsers: ProcessingController and file_processors                       *)

\* Largest batch_size explored (records per yielded batch).
MaxBatchSize == 3

\* Largest CSV chunk_size explored by the chunked reader.
MaxParseChunk == 2

\* A source item: a CSV row or an XML target element.  kind "ok" converts
\* to a record, "reject" makes the conversion raise (it returns None), and
\* "syntax" is markup or a line the underlying reader cannot tokenize.
\* props are the sub-items (property elements) of an assignment-entry.
Item(n, kind, props) == [id |-> n, kind |-> kind, props |-> props]

ParseFiles ==
    { << Item(1, "ok", <<>>), Item(2, "ok", <<7>>), Item(3, "ok", <<7, 8>>) >>,
      << Item(1, "ok", <<7>>), Item(2, "reject", <<8>>), Item(3, "ok", <<9>>) >>,
      << Item(1, "ok", <<7>>), Item(2, "syntax", <<>>), Item(3, "ok", <<9>>) >>,
      << Item(1, "ok", <<7>>), Item(2, "ok", <<8>>) >> }

ParseModes == {"csv_large", "csv_small", "fp_csv_large", "xml_iter", "xml_small", "fp_assign"}

CsvModes == {"csv_large", "csv_small", "fp_csv_large"}

XmlModes == {"xml_iter", "xml_small", "fp_assign"}

\* the reader cannot tokenize some part of the sequence
HasSyntaxError(items) == \E i \in 1..Len(items) : items[i].kind = "syntax"

\* ProcessingController._clean_record on a CSV row: a dict, or None when
\* the conversion raises
clean_record(row) ==
    IF row.kind = "ok" THEN << [id |-> row.id, item |-> 0] >> ELSE <<>>

\* ProcessingController._extract_assignment_record: one record per element,
\* carrying the first property only; None when the extraction raises
extract_assignment_record(e) ==
    IF e.kind # "ok" THEN <<>>
    ELSE << [id |-> e.id, item |-> IF e.props = <<>> THEN 0 ELSE e.props[1]] >>

\* TRTYRAGProcessor.extract_assignment_records for one assignment-entry: one
\* record per property, or the base record alone when there is no property
extract_assignment_records(e) ==
    IF e.kind # "ok" THEN <<>>
    ELSE IF e.props = <<>> THEN << [id |-> e.id, item |-> 0] >>
    ELSE [i \in 1..Len(e.props) |-> [id |-> e.id, item |-> e.props[i]]]

\* CSVProcessor._clean_record (file_processors): always a dict
fp_clean_record(row) == << [id |-> row.id, item |-> 0] >>

\* the records one item converts to under the named conversion
Convert(how, x) ==
    IF how = "clean_record" THEN clean_record(x)
    ELSE IF how = "fp_clean_record" THEN fp_clean_record(x)
    ELSE extract_assignment_records(x)

RECURSIVE FlatMap(_, _)
\* the records of the items of s, in order
FlatMap(how, s) ==
    IF s = <<>> THEN <<>> ELSE Convert(how, Head(s)) \o FlatMap(how, Tail(s))

RECURSIVE Concat(_)
\* the records of a sequence of batches, in order
Concat(batches) ==
    IF batches = <<>> THEN <<>> ELSE Head(batches) \o Concat(Tail(batches))

RECURSIVE SplitBatches(_, _)
\* append each record, yield the batch when full, yield the remainder last
SplitBatches(recs, size) ==
    IF recs = <<>> THEN <<>>
    ELSE IF Len(recs) <= size THEN << recs >>
    ELSE << SubSeq(recs, 1, size) >> \o SplitBatches(SubSeq(recs, size + 1, Len(recs)), size)

IdleParse ==
    [pc |-> "idle", mode |-> "csv_small", file |-> <<>>, batch_size |-> 1,
     chunk_size |-> 1, pos |-> 0, batch |-> <<>>]

\* a generator is created for a file with the configured sizes
ParseStart ==
    /\ parse.pc = "idle"
    /\ \E m \in ParseModes, f \in ParseFiles,
          bs \in 1..MaxBatchSize, cs \in 1..MaxParseChunk :
          parse' = [IdleParse EXCEPT !.pc = "run", !.mode = m, !.file = f,
                                     !.batch_size = bs, !.chunk_size = cs]
    /\ emitted' = <<>>

NextItem == parse.file[parse.pos + 1]

\* "if record: batch.append(record); if len(batch) >= self.batch_size: yield"
AppendAndYield(recs) ==
    LET batch == parse.batch \o recs
    IN  IF recs # <<>> /\ Len(batch) >= parse.batch_size
        THEN /\ emitted' = Append(emitted, batch)
             /\ parse' = [parse EXCEPT !.batch = <<>>, !.pos = @ + 1]
        ELSE /\ emitted' = emitted
             /\ parse' = [parse EXCEPT !.batch = batch, !.pos = @ + 1]

\* _process_small_csv_file / _process_small_xml_file: pd.read_csv or ET.parse
\* of the whole file raises; process_csv_file / process_xml_file catch it
\* and yield one empty batch
OpenFails ==
    /\ parse.pc = "run"
    /\ parse.mode \in {"csv_small", "xml_small"}
    /\ parse.pos = 0
    /\ HasSyntaxError(parse.file)
    /\ emitted' = Append(emitted, <<>>)
    /\ parse' = [parse EXCEPT !.pc = "aborted"]

\* _process_small_csv_file: one row of the data frame
CsvSmallRow ==
    /\ parse.pc = "run"
    /\ parse.mode = "csv_small"
    /\ ~HasSyntaxError(parse.file)
    /\ parse.pos < Len(parse.file)
    /\ AppendAndYield(clean_record(NextItem))

\* _process_small_xml_file: one target element of root.iter()
XmlSmallElem ==
    /\ parse.pc = "run"
    /\ parse.mode = "xml_small"
    /\ ~HasSyntaxError(parse.file)
    /\ parse.pos < Len(parse.file)
    /\ AppendAndYield(extract_assignment_record(NextItem))

\* _process_large_xml_iteratively: one 'end' event of a target element
XmlIterElem ==
    /\ parse.pc = "run"
    /\ parse.mode = "xml_iter"
    /\ parse.pos < Len(parse.file)
    /\ NextItem.kind # "syntax"
    /\ AppendAndYield(extract_assignment_record(NextItem))

\* ET.iterparse raises ParseError at the broken markup: the exception is
\* re-raised, process_xml_file catches it and yields one empty batch; the
\* batch being filled is never yielded
XmlIterAborts ==
    /\ parse.pc = "run"
    /\ parse.mode = "xml_iter"
    /\ parse.pos < Len(parse.file)
    /\ NextItem.kind = "syntax"
    /\ emitted' = Append(emitted, <<>>)
    /\ parse' = [parse EXCEPT !.pc = "aborted"]

\* "Yield remaining records" after the row / element loop
RemainderYield ==
    /\ parse.pc = "run"
    /\ parse.mode \in {"csv_small", "xml_small", "xml_iter"}
    /\ parse.mode = "xml_iter" \/ ~HasSyntaxError(parse.file)
    /\ parse.pos >= Len(parse.file)
    /\ emitted' = IF parse.batch # <<>> THEN Append(emitted, parse.batch) ELSE emitted
    /\ parse' = [parse EXCEPT !.pc = "done", !.batch = <<>>]

ParseChunk_ == ReadChunkAt(parse.file, parse.pos, parse.chunk_size)

\* ProcessingController._process_large_csv_file: one chunk of the reader.
\* batch_records starts empty for every chunk and is yielded after the
\* chunk if it holds at least batch_size records.
CsvLargeChunk ==
    /\ parse.pc = "run"
    /\ parse.mode = "csv_large"
    /\ parse.pos < Len(parse.file)
    /\ ~HasSyntaxError(ParseChunk_)
    /\ LET batch_records == FlatMap("clean_record", ParseChunk_)
       IN  IF Len(batch_records) >= parse.batch_size
           THEN /\ emitted' = Append(emitted, batch_records)
                /\ parse' = [parse EXCEPT !.batch = <<>>, !.pos = @ + Len(ParseChunk_)]
           ELSE /\ emitted' = emitted
                /\ parse' = [parse EXCEPT !.batch = batch_records,
                                          !.pos = @ + Len(ParseChunk_)]

\* the chunked reader raises on a line it cannot tokenize
CsvLargeAborts ==
    /\ parse.pc = "run"
    /\ parse.mode = "csv_large"
    /\ parse.pos < Len(parse.file)
    /\ HasSyntaxError(ParseChunk_)
    /\ emitted' = Append(emitted, <<>>)
    /\ parse' = [parse EXCEPT !.pc = "aborted"]

\* after the chunk loop: the batch_records of the last chunk, if any
CsvLargeEnd ==
    /\ parse.pc = "run"
    /\ parse.mode = "csv_large"
    /\ parse.pos >= Len(parse.file)
    /\ emitted' = IF parse.batch # <<>> THEN Append(emitted, parse.batch) ELSE emitted
    /\ parse' = [parse EXCEPT !.pc = "done", !.batch = <<>>]

\* CSVProcessor._process_large_csv_file: one chunk; full batches are yielded
\* inside the row loop and the remainder at the end of the chunk
FpCsvChunk ==
    /\ parse.pc = "run"
    /\ parse.mode = "fp_csv_large"
    /\ parse.pos < Len(parse.file)
    /\ ~HasSyntaxError(ParseChunk_)
    /\ emitted' = emitted \o SplitBatches(FlatMap("fp_clean_record", ParseChunk_),
                                           parse.batch_size)
    /\ parse' = [parse EXCEPT !.pos = @ + Len(ParseChunk_)]

\* CSVProcessor.process_file re-raises
FpCsvRaises ==
    /\ parse.pc = "run"
    /\ parse.mode = "fp_csv_large"
    /\ parse.pos < Len(parse.file)
    /\ HasSyntaxError(ParseChunk_)
    /\ parse' = [parse EXCEPT !.pc = "raised"]
    /\ UNCHANGED emitted

FpCsvEnd ==
    /\ parse.pc = "run"
    /\ parse.mode = "fp_csv_large"
    /\ parse.pos >= Len(parse.file)
    /\ parse' = [parse EXCEPT !.pc = "done"]
    /\ UNCHANGED emitted

\* XMLProcessor._process_small_xml_file for TRTYRAG / TRTDXFAG:
\* extract_assignment_records(root), then the records in batches
FpAssign ==
    /\ parse.pc = "run"
    /\ parse.mode = "fp_assign"
    /\ ~HasSyntaxError(parse.file)
    /\ emitted' = SplitBatches(FlatMap("extract_assignment_records", parse.file),
                               parse.batch_size)
    /\ parse' = [parse EXCEPT !.pc = "done", !.pos = Len(parse.file)]

\* ET.parse raises and XMLProcessor.process_file re-raises
FpAssignRaises ==
    /\ parse.pc = "run"
    /\ parse.mode = "fp_assign"
    /\ HasSyntaxError(parse.file)
    /\ parse' = [parse EXCEPT !.pc = "raised"]
    /\ UNCHANGED emitted

-----------------------------------------------------------------------------
(* DatabaseController.save_batch                                           *)

\* Largest batch_number passed by the caller.
MaxBatchNumber == 2

\* A record is a function from its keys to values; "" is the empty string
\* and "NULL" is None.
Rec1 == [k \in {"serial_no", "filing_date", "extra", "batch_number"} |->
            IF k = "filing_date" THEN "" ELSE IF k = "batch_number" THEN "0" ELSE "x"]

Rec2 == [k \in {"serial_number", "Filing-Date", "batch_number"} |->
            IF k = "batch_number" THEN "0" ELSE "x"]

Rec3 == [k \in {"serial_no", "batch_number"} |->
            IF k = "batch_number" THEN "0" ELSE "y"]

Rec4 == [k \in {"extra", "other"} |-> "x"]

LoadBatches ==
    { <<>>, <<Rec1>>, <<Rec1, Rec3>>, <<Rec3, Rec1>>, <<Rec2, Rec1>>, <<Rec3, Rec2>>,
      <<Rec4>> }

\* information_schema.columns of the destination table; every product
\* table the program creates has a batch_number column
LiveColumnSets ==
    { {"id", "serial_no", "filing_date", "batch_number"},
      {"id", "serial_no", "filing_dt", "batch_number"},
      {"id", "data", "batch_number"} }

\* key.strip().lower().replace(' ', '_').replace('-', '_')
CleanKey(k) == IF k = "Filing-Date" THEN "filing_date" ELSE k

\* column_mappings
MapKey(k) ==
    LET clean_key == CleanKey(k)
    IN  IF clean_key = "serial_number" THEN "serial_no"
        ELSE IF clean_key = "filing_date" THEN "filing_dt"
        ELSE clean_key

\* _map_insert_columns on one record
map_insert_columns(rec) ==
    [m \in { MapKey(k) : k \in DOMAIN rec } |->
        rec[CHOOSE k \in DOMAIN rec : MapKey(k) = m]]

\* TRCFECO2 records are used as they are
MappedRecord(rec, product_id) ==
    IF product_id = "TRCFECO2" THEN rec ELSE map_insert_columns(rec)

\* a loader that passes every key of the record to the INSERT
FilterRecordKeepAll(rec, db_columns, batch_number) ==
    [k \in DOMAIN rec \cup {"batch_number"} |->
        IF k = "batch_number" THEN batch_number ELSE rec[k]]

\* "if k in db_columns": the keys of the record that are live columns, empty
\* strings and empty dates as None, and batch_number set by the loader
FilterRecord(rec, db_columns, batch_number) ==
    [k \in (DOMAIN rec \cap db_columns) \cup {"batch_number"} |->
        IF k = "batch_number" THEN batch_number
        ELSE IF rec[k] = "" THEN "NULL"
        ELSE rec[k]]

FilteredBatch(batch, product_id, db_columns, batch_number) ==
    [i \in 1..Len(batch) |->
        FilterRecord(MappedRecord(batch[i], product_id), db_columns, batch_number)]

\* columns = list(filtered_batch[0].keys())
InsertColumns(filtered) == DOMAIN filtered[1]

\* batch_tuples: record.get(col) for the columns of the first record
BatchTuples(filtered) ==
    [i \in 1..Len(filtered) |->
        [c \in InsertColumns(filtered) |->
            IF c \in DOMAIN filtered[i] THEN filtered[i][c] ELSE "NULL"]]

NoLoadResult == [success |-> FALSE, rows_processed |-> 0, rows_saved |-> 0]

\* a failure result that reports the batch as saved
FailedResultAsSaved(batch) ==
    [success |-> FALSE, rows_processed |-> Len(batch), rows_saved |-> Len(batch)]

\* the except branch: ProcessingResult(success=False, rows_processed=len(batch_data), rows_saved=0)
FailedResult(batch) ==
    [success |-> FALSE, rows_processed |-> Len(batch), rows_saved |-> 0]

\* ProcessingResult(success=True, rows_processed=len(batch_data), rows_saved=len(filtered_batch))
SavedResult(batch, filtered) ==
    [success |-> TRUE, rows_processed |-> Len(batch), rows_saved |-> Len(filtered)]

IdleLoad ==
    [pc |-> "idle", batch |-> <<>>, product_id |-> "TRCFECO2", batch_number |-> 1,
     db_columns |-> {}, filtered |-> <<>>, written |-> <<>>, attempts |-> 0,
     error |-> "none", result |-> NoLoadResult]

\* save_batch is called; the connection opens and the table's columns are read
LoadCall ==
    /\ load.pc \in {"idle", "returned"}
    /\ \E b \in LoadBatches, p \in {"TRCFECO2", "TRXGEN"},
          n \in 1..MaxBatchNumber, cols \in LiveColumnSets :
          load' = [IdleLoad EXCEPT !.pc = "filter", !.batch = b, !.product_id = p,
                                   !.batch_number = n, !.db_columns = cols]

\* psycopg2.connect raises, or the product is not in the registry
LoadCallFails ==
    /\ load.pc \in {"idle", "returned"}
    /\ \E b \in LoadBatches, p \in {"TRCFECO2", "TRXGEN"}, n \in 1..MaxBatchNumber :
          load' = [IdleLoad EXCEPT !.pc = "returned", !.batch = b, !.product_id = p,
                                   !.batch_number = n, !.error = "connect",
                                   !.result = FailedResult(b)]

\* column mapping and the filter against the live columns
LoadFilter ==
    /\ load.pc = "filter"
    /\ load' = [load EXCEPT !.pc = "insert",
                            !.filtered = FilteredBatch(load.batch, load.product_id,
                                                       load.db_columns, load.batch_number)]

\* "if filtered_batch:" is false: nothing to insert
LoadNothing ==
    /\ load.pc = "insert"
    /\ load.filtered = <<>>
    /\ load' = [load EXCEPT !.pc = "returned",
                            !.result = SavedResult(load.batch, load.filtered)]

\* execute_values and commit succeed
LoadInsertOk ==
    /\ load.pc = "insert"
    /\ load.filtered # <<>>
    /\ load' = [load EXCEPT !.pc = "returned", !.attempts = @ + 1,
                            !.written = BatchTuples(load.filtered),
                            !.result = SavedResult(load.batch, load.filtered)]

\* execute_values or commit raises (a constraint, a value the column type
\* rejects, a lost connection); nothing is committed
LoadInsertFails ==
    /\ load.pc = "insert"
    /\ load.filtered # <<>>
    /\ load' = [load EXCEPT !.pc = "returned", !.attempts = @ + 1,
                            !.error = "write",
                            !.result = FailedResult(load.batch)]

-----------------------------------------------------------------------------
(* Field normalization: dates, values and records                          *)

\* Python values.  A string is the sequence of its characters.
Str(chars) == [t |-> "str", s |-> chars, n |-> 0, b |-> FALSE]

IntV(k) == [t |-> "int", s |-> <<>>, n |-> k, b |-> FALSE]

\* the float k.0
FloatV(k) == [t |-> "float", s |-> <<>>, n |-> k, b |-> FALSE]

BoolV(x) == [t |-> "bool", s |-> <<>>, n |-> 0, b |-> x]

None == [t |-> "none", s |-> <<>>, n |-> 0, b |-> FALSE]

\* float('nan'), the missing value of pandas
NaN == [t |-> "nan", s |-> <<>>, n |-> 0, b |-> FALSE]

Digits == {"0", "1", "2", "3", "4", "5", "6", "7", "8", "9"}

\* str.isdigit()
isdigit(chars) == chars # <<>> /\ \A i \in 1..Len(chars) : chars[i] \in Digits

RECURSIVE lstrip(_)
lstrip(chars) ==
    IF chars # <<>> /\ Head(chars) = " " THEN lstrip(Tail(chars)) ELSE chars

RECURSIVE rstrip(_)
rstrip(chars) ==
    IF chars # <<>> /\ chars[Len(chars)] = " "
    THEN rstrip(SubSeq(chars, 1, Len(chars) - 1))
    ELSE chars

\* str.strip()
strip(chars) == rstrip(lstrip(chars))

\* f"{year}-{month}-{day}"
IsoDate(chars) ==
    Str(SubSeq(chars, 1, 4) \o <<"-">> \o SubSeq(chars, 5, 6) \o <<"-">> \o SubSeq(chars, 7, 8))

\* ProcessingController._normalize_xml_date
normalize_xml_date(yyyymmdd) ==
    IF yyyymmdd.t # "str" \/ yyyymmdd.s = <<>> THEN None
    ELSE LET s == strip(yyyymmdd.s)
         IN  IF Len(s) # 8 \/ ~isdigit(s) THEN None
             ELSE IF SubSeq(s, 5, 6) = <<"0", "0">> \/ SubSeq(s, 7, 8) = <<"0", "0">>
                  THEN None
                  ELSE IsoDate(s)

\* TRTDXFAPProcessor._normalize_date
normalize_date(v) ==
    IF v.t # "str" \/ v.s = <<>> \/ Len(v.s) # 8 \/ ~isdigit(v.s) THEN None
    ELSE IF SubSeq(v.s, 5, 6) = <<"0", "0">> \/ SubSeq(v.s, 7, 8) = <<"0", "0">>
         THEN None
         ELSE IsoDate(v.s)

\* pd.isna(value)
isna(value) == value.t \in {"none", "nan"}

\* isinstance(value, (int, float)); bool is a subclass of int
IsNumber(value) == value.t \in {"int", "float", "bool"}

\* the number a numeric value stands for
NumberOf(value) == IF value.t = "bool" THEN (IF value.b THEN 1 ELSE 0) ELSE value.n

DigitChar(d) ==
    CASE d = 0 -> "0" [] d = 1 -> "1" [] d = 2 -> "2" [] d = 3 -> "3" [] d = 4 -> "4"
      [] d = 5 -> "5" [] d = 6 -> "6" [] d = 7 -> "7" [] d = 8 -> "8" [] d = 9 -> "9"

DigitValue(c) == CHOOSE d \in 0..9 : DigitChar(d) = c

RECURSIVE IntToChars(_)
\* str(k) for a non-negative int
IntToChars(k) ==
    IF k < 10 THEN << DigitChar(k) >>
    ELSE Append(IntToChars(k \div 10), DigitChar(k % 10))

RECURSIVE CharsToInt(_)
\* int(chars) for a string of decimal digits
CharsToInt(chars) ==
    IF Len(chars) = 1 THEN DigitValue(chars[1])
    ELSE 10 * CharsToInt(SubSeq(chars, 1, Len(chars) - 1)) + DigitValue(chars[Len(chars)])

\* str(value)
str(value) ==
    CASE value.t = "str" -> value.s
      [] value.t = "int" -> IntToChars(value.n)
      [] value.t = "float" -> IntToChars(value.n) \o <<".", "0">>
      [] value.t = "bool" -> IF value.b THEN <<"T", "r", "u", "e">>
                                        ELSE <<"F", "a", "l", "s", "e">>
      [] value.t = "none" -> <<"N", "o", "n", "e">>
      [] value.t = "nan" -> <<"n", "a", "n">>

LowerChar(c) ==
    CASE c = "T" -> "t" [] c = "F" -> "f" [] c = "N" -> "n" [] c = "Y" -> "y"
      [] OTHER -> c

\* str.lower()
lower(chars) == [i \in 1..Len(chars) |-> LowerChar(chars[i])]

\* column_name.endswith('_in')
IsFlagColumn(column_name) == column_name \in {"ir_priority_in"}

\* column_name.endswith('_dt') or column_name.endswith('_date')
IsDateColumn(column_name) ==
    column_name \in {"filing_dt", "filing_date", "registration_dt", "registration_date"}

\* the fixed list of integer identifier columns
IsIntegerColumn(column_name) ==
    column_name \in {"serial_no", "registration_number", "registration_no",
                     "tad_file_id", "cfh_status_cd", "mark_draw_cd"}

TruthyStrings ==
    { <<"t", "r", "u", "e">>, <<"1">>, <<"1", ".", "0">>, <<"y", "e", "s">>, <<"y">> }

FalsyStrings ==
    { <<"f", "a", "l", "s", "e">>, <<"0">>, <<"0", ".", "0">>, <<"n", "o">>, <<"n">> }

ZeroDate == <<"0", "0", "0", "0", "-", "0", "0", "-", "0", "0">>

\* ProcessingController._convert_value
convert_value(value, column_name) ==
    IF IsFlagColumn(column_name)
    THEN IF isna(value) THEN None
         ELSE IF IsNumber(value) THEN BoolV(NumberOf(value) # 0)
         ELSE IF lower(str(value)) \in TruthyStrings THEN BoolV(TRUE)
         ELSE IF lower(str(value)) \in FalsyStrings THEN BoolV(FALSE)
         ELSE None
    ELSE IF IsDateColumn(column_name)
    THEN IF isna(value) THEN None
         ELSE IF value.t = "str"
              THEN LET stripped == strip(value.s)
                   IN  IF stripped = <<>> \/ stripped = ZeroDate THEN None
                       ELSE Str(stripped)
              ELSE None
    ELSE IF IsIntegerColumn(column_name)
    THEN IF isna(value) THEN None
         ELSE IF IsNumber(value) THEN IntV(NumberOf(value))
         ELSE LET str_val == strip(str(value))
              IN  IF str_val = <<>> \/ str_val = <<"n", "a", "n">> THEN None
                  ELSE IF isdigit(str_val) THEN IntV(CharsToInt(str_val))
                  ELSE None
    ELSE IF isna(value) THEN None
         ELSE IF strip(str(value)) # <<>> THEN Str(strip(str(value)))
         ELSE None

\* _map_trcfeco2_columns on one key
map_trcfeco2_column(key) ==
    CASE key = "mark_id_char" -> "mark_identification"
      [] key = "registration_no" -> "registration_number"
      [] key = "filing_dt" -> "filing_date"
      [] key = "registration_dt" -> "registration_date"
      [] OTHER -> key

\* a key mapping that exchanges the two spellings of the filing date
map_column_name_swapping(key) ==
    CASE key = "filing_date" -> "filing_dt"
      [] key = "filing_dt" -> "filing_date"
      [] OTHER -> key

\* _map_column_names on one key: clean the key, then column_mappings
map_column_name(key) ==
    LET clean_key == CleanKey(key)
    IN  CASE clean_key = "file_location" -> "file_location_cd"
          [] clean_key = "registration_no" -> "registration_number"
          [] clean_key = "serial_number" -> "serial_no"
          [] clean_key = "filing_date" -> "filing_dt"
          [] clean_key = "registration_date" -> "registration_dt"
          [] clean_key = "mark_identification" -> "mark_id_char"
          [] OTHER -> clean_key

\* _map_trcfeco2_columns: file_location is left out
map_trcfeco2_columns(record) ==
    [m \in { map_trcfeco2_column(k) : k \in DOMAIN record \ {"file_location"} } |->
        record[CHOOSE k \in DOMAIN record \ {"file_location"} : map_trcfeco2_column(k) = m]]

\* _map_column_names
map_column_names(record) ==
    [m \in { map_column_name(k) : k \in DOMAIN record } |->
        record[CHOOSE k \in DOMAIN record : map_column_name(k) = m]]

NullStrings == { <<"n", "a", "n">>, <<"n", "o", "n", "e">>, <<"n", "u", "l", "l">> }

\* the value _clean_record stores for one key of the mapped record
CleanValue(value, key) ==
    IF isna(value) THEN None
    ELSE LET str_value == strip(str(value))
         IN  IF str_value = <<>> \/ lower(str_value) \in NullStrings THEN None
             ELSE IF IsDateColumn(key) /\ str_value = ZeroDate THEN None
             ELSE LET converted == convert_value(value, key)
                  IN  IF converted.t = "str" /\ strip(converted.s) = <<>> THEN None
                      ELSE converted

\* ProcessingController._clean_record on the fields of a row
clean_record_fields(record, product_id) ==
    LET mapped_record == IF product_id = "TRCFECO2" THEN map_trcfeco2_columns(record)
                         ELSE map_column_names(record)
    IN  [k \in DOMAIN mapped_record \cup {"data_source", "batch_number"} |->
            IF k = "data_source" THEN Str(<<product_id, " ", "[CSV]">>)
            ELSE IF k = "batch_number" THEN IntV(0)
            ELSE CleanValue(mapped_record[k], k)]

\* candidate date values: 2023 followed by four characters, strings of
\* another length, a padded string, the empty string and None
DateInputs ==
    { Str(<<"2", "0", "2", "3">> \o t) : t \in [1..4 -> {"0", "1", "a"}] }
    \cup { None, Str(<<>>),
           Str(<<"2", "0", "2", "3", "0", "1", "1">>),
           Str(<<"2", "0", "2", "3", "0", "1", "0", "1", "1">>),
           Str(<<"2", "0", "2", "3", "-", "0", "1", "-", "0", "1">>),
           Str(<<" ", "2", "0", "2", "3", "0", "1", "0", "1", " ">>),
           Str(ZeroDate) }

Raw1 ==
    [k \in {"serial_no", "filing_dt", "ir_priority_in", "mark_id_char", "file_location"} |->
        CASE k = "serial_no" -> Str(<<"0", "7">>)
          [] k = "filing_dt" -> Str(<<"2", "0", "2", "3", "0", "1", "0", "1">>)
          [] k = "ir_priority_in" -> IntV(1)
          [] k = "mark_id_char" -> Str(<<" ", "a", " ">>)
          [] k = "file_location" -> Str(<<"a">>)]

Raw2 ==
    [k \in {"serial_no", "filing_dt", "registration_no", "ir_priority_in", "mark_id_char"} |->
        CASE k = "serial_no" -> IntV(7)
          [] k = "filing_dt" -> IntV(20230101)
          [] k = "registration_no" -> FloatV(7)
          [] k = "ir_priority_in" -> Str(<<"T">>)
          [] k = "mark_id_char" -> NaN]

Raw3 ==
    [k \in {"serial_number", "Filing-Date", "ir_priority_in", "mark_identification"} |->
        CASE k = "serial_number" -> Str(<<"a">>)
          [] k = "Filing-Date" -> Str(ZeroDate)
          [] k = "ir_priority_in" -> BoolV(TRUE)
          [] k = "mark_identification" -> Str(<<"N", "a", "N">>)]

Raw4 ==
    [k \in {"serial_no", "registration_date", "ir_priority_in", "tad_file_id"} |->
        CASE k = "serial_no" -> Str(<<" ", "1", "2", " ">>)
          [] k = "registration_date" -> Str(<<" ", "2", "0", "2", "3", "0", "0", "0", "1">>)
          [] k = "ir_priority_in" -> Str(<<"Y">>)
          [] k = "tad_file_id" -> FloatV(0)]

RawRecords == {Raw1, Raw2, Raw3, Raw4}

NoRecord == [k \in {} |-> None]

IdleNorm ==
    [pc |-> "value", value |-> None, column |-> "filing_dt", record |-> NoRecord,
     product_id |-> "TRCFECO2", out |-> None, cleaned |-> NoRecord,
     recleaned |-> NoRecord]

\* the inputs: a date value, or a raw record of a product
NormInputs ==
    { [IdleNorm EXCEPT !.value = v] : v \in DateInputs }
    \cup { [IdleNorm EXCEPT !.pc = "record", !.record = r, !.product_id = p] :
             r \in RawRecords, p \in {"TRCFECO2", "TRXGEN"} }

\* _normalize_xml_date(self._get_xml_text(...))
NormalizeXmlDate ==
    /\ norm.pc = "value"
    /\ norm' = [norm EXCEPT !.pc = "xml_date", !.out = normalize_xml_date(norm.value)]

\* _normalize_date(self._get_text(...))
NormalizeDate ==
    /\ norm.pc = "value"
    /\ norm' = [norm EXCEPT !.pc = "fp_date", !.out = normalize_date(norm.value)]

\* _convert_value(value, key) for the value of a date column of a CSV row
ConvertDateValue ==
    /\ norm.pc = "value"
    /\ \E c \in {"filing_dt", "registration_date"} :
          norm' = [norm EXCEPT !.pc = "converted", !.column = c,
                               !.out = convert_value(norm.value, c)]

\* _clean_record(record, product_id)
CleanRecord ==
    /\ norm.pc = "record"
    /\ norm' = [norm EXCEPT !.pc = "cleaned",
                            !.cleaned = clean_record_fields(norm.record, norm.product_id)]

\* _clean_record applied to its own result
CleanRecordAgain ==
    /\ norm.pc = "cleaned"
    /\ norm' = [norm EXCEPT !.pc = "recleaned",
                            !.recleaned = clean_record_fields(norm.cleaned, norm.product_id)]

-----------------------------------------------------------------------------
(* Two runs of run_full_process on the same file                           *)

Workers == {1, 2}

IdleConc ==
    [history |-> NoHistory, key |-> <<"TRCFECO2", "cf1.zip">>,
     pc |-> [w \in Workers |-> "idle"], force |-> [w \in Workers |-> FALSE]]

\* the file both runs reach
ConcInputs == { [IdleConc EXCEPT !.key = k] : k \in Keys }

\* a run reaches the file in its per-file loop
ConcStart(w) ==
    /\ conc.pc[w] = "idle"
    /\ \E f \in BOOLEAN :
          conc' = [conc EXCEPT !.pc[w] = "check", !.force[w] = f]

\* "Skip file if already completed previously"
ConcCheck(w) ==
    /\ conc.pc[w] = "check"
    /\ conc' = [conc EXCEPT !.pc[w] =
                   IF ~conc.force[w] /\ is_file_completed(conc.history, conc.key)
                   THEN "done" ELSE "acquire"]

\* download_file returns None: "continue"
ConcDownloadFails(w) ==
    /\ conc.pc[w] = "acquire"
    /\ conc' = [conc EXCEPT !.pc[w] = "done"]

\* download or extraction raises
ConcAcquireRaises(w) ==
    /\ conc.pc[w] = "acquire"
    /\ conc' = [conc EXCEPT !.pc[w] = "except"]

\* extract_zip_file returns None: control falls through to the completion
ConcExtractFails(w) ==
    /\ conc.pc[w] = "acquire"
    /\ IsZip(conc.key)
    /\ conc' = [conc EXCEPT !.pc[w] = "complete"]

\* the data of the file is at hand
ConcAcquired(w) ==
    /\ conc.pc[w] = "acquire"
    /\ conc' = [conc EXCEPT !.pc[w] = "mark_select"]

\* mark_file_processing, first statement: SELECT status; return if completed
ConcMarkSelect(w) ==
    /\ conc.pc[w] = "mark_select"
    /\ conc' = [conc EXCEPT !.pc[w] =
                   IF conc.history[conc.key].status = "completed"
                   THEN "work" ELSE "mark_upsert"]

\* mark_file_processing, second statement: INSERT ... ON CONFLICT DO UPDATE
\* SET status = CASE WHEN status = 'completed' THEN 'completed' ELSE 'processing' END
ConcMarkUpsert(w) ==
    /\ conc.pc[w] = "mark_upsert"
    /\ conc' = [conc EXCEPT !.history = mark_file_processing(conc.history, conc.key),
                            !.pc[w] = "work"]

\* the batches of the file have been handled
ConcWorkDone(w) ==
    /\ conc.pc[w] = "work"
    /\ conc' = [conc EXCEPT !.pc[w] = "complete"]

\* walking the extraction directory raises (OSError)
ConcWorkRaises(w) ==
    /\ conc.pc[w] = "work"
    /\ IsZip(conc.key)
    /\ conc' = [conc EXCEPT !.pc[w] = "except"]

\* upsert_file_completed
ConcComplete(w) ==
    /\ conc.pc[w] = "complete"
    /\ conc' = [conc EXCEPT !.history = upsert_file_completed(conc.history, conc.key),
                            !.pc[w] = "done"]

\* the per-file except clause: mark_file_error
ConcExcept(w) ==
    /\ conc.pc[w] = "except"
    /\ conc' = [conc EXCEPT !.history = mark_file_error(conc.history, conc.key, "err"),
                            !.pc[w] = "done"]

-----------------------------------------------------------------------------
(* The specifications                                                      *)

OrchNext ==
    \/ StartRun /\ UNCHANGED <<ckVars, parseVars, loadVars, normVars, concVars>>
    \/ NoDatasets /\ UNCHANGED <<ckVars, parseVars, loadVars, normVars, concVars>>
    \/ ProductsExhausted /\ UNCHANGED <<ckVars, parseVars, loadVars, normVars, concVars>>
    \/ FilterProduct /\ UNCHANGED <<ckVars, parseVars, loadVars, normVars, concVars>>
    \/ SkipProduct /\ UNCHANGED <<ckVars, parseVars, loadVars, normVars, concVars>>
    \/ EnterProduct /\ UNCHANGED <<ckVars, parseVars, loadVars, normVars, concVars>>
    \/ FilesExhausted /\ UNCHANGED <<ckVars, parseVars, loadVars, normVars, concVars>>
    \/ CheckFile /\ UNCHANGED <<ckVars, parseVars, loadVars, normVars, concVars>>
    \/ UseExtracted /\ UNCHANGED <<ckVars, parseVars, loadVars, normVars, concVars>>
    \/ DownloadFails /\ UNCHANGED <<ckVars, parseVars, loadVars, normVars, concVars>>
    \/ DownloadRaises /\ UNCHANGED <<ckVars, parseVars, loadVars, normVars, concVars>>
    \/ ExtractOk /\ UNCHANGED <<ckVars, parseVars, loadVars, normVars, concVars>>
    \/ ExtractFails /\ UNCHANGED <<ckVars, parseVars, loadVars, normVars, concVars>>
    \/ DownloadSingle /\ UNCHANGED <<ckVars, parseVars, loadVars, normVars, concVars>>
    \/ MarkProcessing /\ UNCHANGED <<ckVars, parseVars, loadVars, normVars, concVars>>
    \/ FindDataFiles /\ UNCHANGED <<ckVars, parseVars, loadVars, normVars, concVars>>
    \/ FindDataFilesRaises /\ UNCHANGED <<ckVars, parseVars, loadVars, normVars, concVars>>
    \/ SaveBatchOk /\ UNCHANGED <<ckVars, parseVars, loadVars, normVars, concVars>>
    \/ SaveBatchFails /\ UNCHANGED <<ckVars, parseVars, loadVars, normVars, concVars>>
    \/ NextDataFile /\ UNCHANGED <<ckVars, parseVars, loadVars, normVars, concVars>>
    \/ BatchesDone /\ UNCHANGED <<ckVars, parseVars, loadVars, normVars, concVars>>
    \/ MarkCompleted /\ UNCHANGED <<ckVars, parseVars, loadVars, normVars, concVars>>
    \/ HandleFileException /\ UNCHANGED <<ckVars, parseVars, loadVars, normVars, concVars>>
    \/ ReturnRun /\ UNCHANGED <<ckVars, parseVars, loadVars, normVars, concVars>>
    \/ Interrupt /\ UNCHANGED <<ckVars, parseVars, loadVars, normVars, concVars>>

\* the orchestrator and its ledger; the structured processor is not running
OrchInit ==
    /\ history = NoHistory
    /\ tables = NoTables
    /\ extractedDirs = {}
    /\ orch = IdleOrch
    /\ results = NoResults
    /\ exitCode = 0
    /\ runs = 0
    /\ audit = NoAudit
    /\ csv = <<1, 2, 3>>
    /\ checkpoint = NoCheckpoint
    /\ tmpfile = NoCheckpoint
    /\ staging = NoStaging
    /\ db = {}
    /\ sp = IdleSp
    /\ ck = NoCk
    /\ parse = IdleParse
    /\ emitted = <<>>
    /\ load = IdleLoad
    /\ conc = IdleConc
    /\ norm = IdleNorm

SpecOrch == OrchInit /\ [][OrchNext]_vars

CkNext ==
    \/ CkStartRun /\ UNCHANGED <<orchVars, parseVars, loadVars, normVars, concVars>>
    \/ SkipChunk /\ UNCHANGED <<orchVars, parseVars, loadVars, normVars, concVars>>
    \/ ParseChunk /\ UNCHANGED <<orchVars, parseVars, loadVars, normVars, concVars>>
    \/ AppendStaged /\ UNCHANGED <<orchVars, parseVars, loadVars, normVars, concVars>>
    \/ SaveCheckpointOpen /\ UNCHANGED <<orchVars, parseVars, loadVars, normVars, concVars>>
    \/ SaveCheckpointDumped /\ UNCHANGED <<orchVars, parseVars, loadVars, normVars, concVars>>
    \/ SaveCheckpointReplace /\ UNCHANGED <<orchVars, parseVars, loadVars, normVars, concVars>>
    \/ EndOfFile /\ UNCHANGED <<orchVars, parseVars, loadVars, normVars, concVars>>
    \/ ResumeNothing /\ UNCHANGED <<orchVars, parseVars, loadVars, normVars, concVars>>
    \/ ResumeSaveOk /\ UNCHANGED <<orchVars, parseVars, loadVars, normVars, concVars>>
    \/ ResumeSaveFails /\ UNCHANGED <<orchVars, parseVars, loadVars, normVars, concVars>>
    \/ ClearCheckpoint /\ UNCHANGED <<orchVars, parseVars, loadVars, normVars, concVars>>
    \/ ClearStaging /\ UNCHANGED <<orchVars, parseVars, loadVars, normVars, concVars>>
    \/ FinalSaveOk /\ UNCHANGED <<orchVars, parseVars, loadVars, normVars, concVars>>
    \/ FinalSaveFails /\ UNCHANGED <<orchVars, parseVars, loadVars, normVars, concVars>>
    \/ CkCrash /\ UNCHANGED <<orchVars, parseVars, loadVars, normVars, concVars>>

\* the structured processor on one case_file.csv; the orchestrator is idle
CkInit ==
    /\ csv \in CsvFiles
    /\ checkpoint = NoCheckpoint
    /\ tmpfile = NoCheckpoint
    /\ staging = NoStaging
    /\ db = {}
    /\ sp = IdleSp
    /\ ck = NoCk
    /\ history = NoHistory
    /\ tables = NoTables
    /\ extractedDirs = {}
    /\ orch = IdleOrch
    /\ results = NoResults
    /\ exitCode = 0
    /\ runs = 0
    /\ audit = NoAudit
    /\ parse = IdleParse
    /\ emitted = <<>>
    /\ load = IdleLoad
    /\ conc = IdleConc
    /\ norm = IdleNorm

SpecCkpt == CkInit /\ [][CkNext]_vars

ParseNext ==
    \/ ParseStart /\ UNCHANGED <<orchVars, ckVars, loadVars, normVars, concVars>>
    \/ OpenFails /\ UNCHANGED <<orchVars, ckVars, loadVars, normVars, concVars>>
    \/ CsvSmallRow /\ UNCHANGED <<orchVars, ckVars, loadVars, normVars, concVars>>
    \/ XmlSmallElem /\ UNCHANGED <<orchVars, ckVars, loadVars, normVars, concVars>>
    \/ XmlIterElem /\ UNCHANGED <<orchVars, ckVars, loadVars, normVars, concVars>>
    \/ XmlIterAborts /\ UNCHANGED <<orchVars, ckVars, loadVars, normVars, concVars>>
    \/ RemainderYield /\ UNCHANGED <<orchVars, ckVars, loadVars, normVars, concVars>>
    \/ CsvLargeChunk /\ UNCHANGED <<orchVars, ckVars, loadVars, normVars, concVars>>
    \/ CsvLargeAborts /\ UNCHANGED <<orchVars, ckVars, loadVars, normVars, concVars>>
    \/ CsvLargeEnd /\ UNCHANGED <<orchVars, ckVars, loadVars, normVars, concVars>>
    \/ FpCsvChunk /\ UNCHANGED <<orchVars, ckVars, loadVars, normVars, concVars>>
    \/ FpCsvRaises /\ UNCHANGED <<orchVars, ckVars, loadVars, normVars, concVars>>
    \/ FpCsvEnd /\ UNCHANGED <<orchVars, ckVars, loadVars, normVars, concVars>>
    \/ FpAssign /\ UNCHANGED <<orchVars, ckVars, loadVars, normVars, concVars>>
    \/ FpAssignRaises /\ UNCHANGED <<orchVars, ckVars, loadVars, normVars, concVars>>

ParseInit ==
    /\ parse = IdleParse
    /\ emitted = <<>>
    /\ load = IdleLoad
    /\ conc = IdleConc
    /\ norm = IdleNorm
    /\ csv = <<1, 2, 3>>
    /\ checkpoint = NoCheckpoint
    /\ tmpfile = NoCheckpoint
    /\ staging = NoStaging
    /\ db = {}
    /\ sp = IdleSp
    /\ ck = NoCk
    /\ history = NoHistory
    /\ tables = NoTables
    /\ extractedDirs = {}
    /\ orch = IdleOrch
    /\ results = NoResults
    /\ exitCode = 0
    /\ runs = 0
    /\ audit = NoAudit

\* the parsers of ProcessingController and file_processors on one file
SpecParse == ParseInit /\ [][ParseNext]_vars

LoadNext ==
    \/ LoadCall /\ UNCHANGED <<orchVars, ckVars, parseVars, normVars, concVars>>
    \/ LoadCallFails /\ UNCHANGED <<orchVars, ckVars, parseVars, normVars, concVars>>
    \/ LoadFilter /\ UNCHANGED <<orchVars, ckVars, parseVars, normVars, concVars>>
    \/ LoadNothing /\ UNCHANGED <<orchVars, ckVars, parseVars, normVars, concVars>>
    \/ LoadInsertOk /\ UNCHANGED <<orchVars, ckVars, parseVars, normVars, concVars>>
    \/ LoadInsertFails /\ UNCHANGED <<orchVars, ckVars, parseVars, normVars, concVars>>

LoadInit ==
    /\ load = IdleLoad
    /\ conc = IdleConc
    /\ norm = IdleNorm
    /\ parse = IdleParse
    /\ emitted = <<>>
    /\ csv = <<1, 2, 3>>
    /\ checkpoint = NoCheckpoint
    /\ tmpfile = NoCheckpoint
    /\ staging = NoStaging
    /\ db = {}
    /\ sp = IdleSp
    /\ ck = NoCk
    /\ history = NoHistory
    /\ tables = NoTables
    /\ extractedDirs = {}
    /\ orch = IdleOrch
    /\ results = NoResults
    /\ exitCode = 0
    /\ runs = 0
    /\ audit = NoAudit

\* calls of DatabaseController.save_batch
SpecLoad == LoadInit /\ [][LoadNext]_vars

NormNext ==
    \/ NormalizeXmlDate /\ UNCHANGED <<orchVars, ckVars, parseVars, loadVars, concVars>>
    \/ NormalizeDate /\ UNCHANGED <<orchVars, ckVars, parseVars, loadVars, concVars>>
    \/ ConvertDateValue /\ UNCHANGED <<orchVars, ckVars, parseVars, loadVars, concVars>>
    \/ CleanRecord /\ UNCHANGED <<orchVars, ckVars, parseVars, loadVars, concVars>>
    \/ CleanRecordAgain /\ UNCHANGED <<orchVars, ckVars, parseVars, loadVars, concVars>>

NormInit ==
    /\ norm \in NormInputs
    /\ load = IdleLoad
    /\ conc = IdleConc
    /\ parse = IdleParse
    /\ emitted = <<>>
    /\ csv = <<1, 2, 3>>
    /\ checkpoint = NoCheckpoint
    /\ tmpfile = NoCheckpoint
    /\ staging = NoStaging
    /\ db = {}
    /\ sp = IdleSp
    /\ ck = NoCk
    /\ history = NoHistory
    /\ tables = NoTables
    /\ extractedDirs = {}
    /\ orch = IdleOrch
    /\ results = NoResults
    /\ exitCode = 0
    /\ runs = 0
    /\ audit = NoAudit

\* the field normalizers applied to bounded sets of values and records
SpecNorm == NormInit /\ [][NormNext]_vars

ConcNext ==
    \/ (\E w \in Workers : ConcStart(w)) /\ UNCHANGED <<orchVars, ckVars, parseVars, loadVars, normVars>>
    \/ (\E w \in Workers : ConcCheck(w)) /\ UNCHANGED <<orchVars, ckVars, parseVars, loadVars, normVars>>
    \/ (\E w \in Workers : ConcDownloadFails(w)) /\ UNCHANGED <<orchVars, ckVars, parseVars, loadVars, normVars>>
    \/ (\E w \in Workers : ConcAcquireRaises(w)) /\ UNCHANGED <<orchVars, ckVars, parseVars, loadVars, normVars>>
    \/ (\E w \in Workers : ConcExtractFails(w)) /\ UNCHANGED <<orchVars, ckVars, parseVars, loadVars, normVars>>
    \/ (\E w \in Workers : ConcAcquired(w)) /\ UNCHANGED <<orchVars, ckVars, parseVars, loadVars, normVars>>
    \/ (\E w \in Workers : ConcMarkSelect(w)) /\ UNCHANGED <<orchVars, ckVars, parseVars, loadVars, normVars>>
    \/ (\E w \in Workers : ConcMarkUpsert(w)) /\ UNCHANGED <<orchVars, ckVars, parseVars, loadVars, normVars>>
    \/ (\E w \in Workers : ConcWorkDone(w)) /\ UNCHANGED <<orchVars, ckVars, parseVars, loadVars, normVars>>
    \/ (\E w \in Workers : ConcWorkRaises(w)) /\ UNCHANGED <<orchVars, ckVars, parseVars, loadVars, normVars>>
    \/ (\E w \in Workers : ConcComplete(w)) /\ UNCHANGED <<orchVars, ckVars, parseVars, loadVars, normVars>>
    \/ (\E w \in Workers : ConcExcept(w)) /\ UNCHANGED <<orchVars, ckVars, parseVars, loadVars, normVars>>

ConcInit ==
    /\ conc \in ConcInputs
    /\ norm = IdleNorm
    /\ load = IdleLoad
    /\ parse = IdleParse
    /\ emitted = <<>>
    /\ csv = <<1, 2, 3>>
    /\ checkpoint = NoCheckpoint
    /\ tmpfile = NoCheckpoint
    /\ staging = NoStaging
    /\ db = {}
    /\ sp = IdleSp
    /\ ck = NoCk
    /\ history = NoHistory
    /\ tables = NoTables
    /\ extractedDirs = {}
    /\ orch = IdleOrch
    /\ results = NoResults
    /\ exitCode = 0
    /\ runs = 0
    /\ audit = NoAudit

\* repeated runs of the pipeline: a started process keeps executing, and
\* the operator keeps starting runs while the bound allows
SpecOrchFair == OrchInit /\ [][OrchNext]_vars /\ WF_vars(OrchNext)

\* two concurrent runs and the ledger entry of one file
SpecConc == ConcInit /\ [][ConcNext]_vars

-----
(* Properties of the ledger and the orchestrator (SpecOrch)                *)

\* the run that just ended returned from run_full_process through the
\* product loop (it was neither interrupted nor aborted by "No datasets found")
RunReturned == orch.pc = "done" /\ ~audit.interrupted /\ results.success

\* C1: a transition into `processing` never downgrades a `completed` ledger
\* entry: whenever mark_file_processing acts, every entry that was
\* `completed` before the step is unchanged after it.
C1_NoDowngrade ==
    [][MarkProcessing =>
         \A k \in Keys : history[k].status = "completed" => history'[k] = history[k]]_vars

\* C1 witness: a forced run has marked a file processing whose entry was
\* completed, and the entry is still completed.
C1_Witness ==
    /\ orch.pc \in {"find", "batches"}
    /\ orch.force
    /\ audit.startHistory[CurKey].status = "completed"
    /\ history[CurKey].status = "completed"

C4_OneRowPerNaturalId ==
    \A p \in {"TRCFECO2", "TRXGEN"} : \A n \in NIds : tables[p][n] <= 1

\* C4 witness: a forced run has loaded a batch again whose rows were already
\* in the destination table.
C4_Witness ==
    /\ orch.pc = "batches"
    /\ orch.bidx > 1
    /\ orch.force
    /\ CurKey \in audit.loaded
    /\ \A n \in DataFiles(CurKey)[orch.didx][orch.bidx - 1] :
          audit.startTables[CurProduct][n] > 0 /\ tables[CurProduct][n] > 0

\* C6: when the load of a batch of a file fails, the file's ledger entry is
\* `error` with the message when the run returns, not `completed`.
C6_FailedBatchMarksError ==
    RunReturned =>
        \A k \in audit.batchFailed :
            history[k].status = "error" /\ history[k].error_message # "NULL"

\* C6 witness: a run returned after one of its batches failed to load.
C6_Witness == RunReturned /\ audit.batchFailed # {}

\* the edges of the ledger state machine
AllowedEdges ==
    { <<"pending", "processing">>, <<"processing", "completed">>,
      <<"processing", "error">>, <<"error", "processing">> }

\* C7: every change of a ledger entry's state follows pending -> processing,
\* processing -> completed, processing -> error or error -> processing;
\* `completed` changes only when reprocessing is forced.
C7_LedgerEdges ==
    [][\A k \in Keys :
          LedgerState(history, k) # LedgerState(history', k) =>
              \/ <<LedgerState(history, k), LedgerState(history', k)>> \in AllowedEdges
              \/ orch.force /\ LedgerState(history, k) = "completed"]_vars

\* C7 witness: an entry went pending -> processing -> completed.
C7_Witness ==
    /\ orch.pc = "file"
    /\ \E k \in audit.loaded :
          audit.startHistory[k].status = "none" /\ history[k].status = "completed"

\* C9: a file whose entry is `error` when a run starts is processed again by
\* that run, unless the operator's filters exclude its dataset.
C9_ErrorRetried ==
    RunReturned =>
        \A k \in Keys :
            (audit.startHistory[k].status = "error" /\ ~FilteredOut(k[1]))
                => k \in audit.attempted

\* C9 witness: a run that returned started with an unfiltered file in error.
C9_Witness ==
    /\ RunReturned
    /\ \E k \in Keys : audit.startHistory[k].status = "error" /\ ~FilteredOut(k[1])

\* C10: the exit code is 0 when the run returned without any error, and
\* non-zero when a file ended the run in `error` state.
C10_ExitCode ==
    orch.pc = "done" =>
        /\ (RunReturned /\ results.errors = 0) => exitCode = 0
        /\ (\E k \in audit.errored : history[k].status = "error") => exitCode # 0

\* C10 witness: a run ended with a file it marked `error`.
C10_Witness ==
    orch.pc = "done" /\ \E k \in audit.errored : history[k].status = "error"

-----------------------------------------------------------------------------
(* Properties of the checkpoint, the staging log and resume                *)

\* the rows an uninterrupted, fault-free run loads: every row with a serial number
UninterruptedRows == Range(ChunkRecords(csv))

\* C3: a run interrupted part-way through the file, followed by one resumed
\* run that ends normally with no database fault, leaves the same set of rows
\* in trademark_case_files as an uninterrupted run of the same file.
C3_ResumeEqualsUninterrupted ==
    (sp.pc = "done" /\ ck.runs = 2 /\ ck.crashes = 1 /\ ck.faults = 0)
        => db = UninterruptedRows

C3_Witness ==
    /\ sp.pc = "done" /\ ck.runs = 2 /\ ck.crashes = 1 /\ ck.faults = 0
    /\ db # {}

\* C5: a step removes the checkpoint, removes the staging log or drops a
\* staged record only when every record of the staging log is already a row
\* of trademark_case_files.
C5_ClearedOnlyAfterLoad ==
    [][ ( \/ checkpoint.exists /\ ~checkpoint'.exists
          \/ staging.exists /\ ~staging'.exists
          \/ \E n \in Range(staging.records) : n \notin Range(staging'.records) )
        => Range(staging.records) \subseteq db ]_vars

C5_Witness ==
    /\ ~checkpoint.exists /\ ~staging.exists
    /\ ck.staged # {} /\ ck.staged \subseteq db
    /\ ck.faults > 0

\* C8: whenever a checkpoint is overwritten, in the same run or in a resumed
\* one, the rows_read it records is not smaller than the one it replaces.
C8_CheckpointMonotonic ==
    [][ (checkpoint.exists /\ checkpoint'.exists)
        => checkpoint'.rows_read >= checkpoint.rows_read ]_vars

C8_Witness ==
    /\ ck.crashes > 0 /\ sp.pc = "read"
    /\ checkpoint.exists /\ sp.checkpoint_rows > 0
    /\ checkpoint.rows_read > sp.checkpoint_rows


-----------------------------------------------------------------------------
(* Ordering of the ledger marks around the batches of a file               *)

\* C11: while the batches of a file are being loaded its ledger entry reads
\* `processing` (it was marked before the first batch), and the completion
\* mark is reached only with the batches of the file handled.
C11_MarkOrder ==
    /\ orch.pc = "batches" => history[CurKey].status = "processing"
    /\ orch.pc = "complete" => CurKey \in audit.loaded

C11_Witness ==
    /\ orch.pc = "complete"
    /\ CurKey \in audit.loaded
    /\ history[CurKey].status = "processing"


-----------------------------------------------------------------------------
(* Progress on disk while a file is being read                             *)

\* records converted by the running call that are not in the staging log
Unstaged ==
    { i \in 1..Len(sp.case_files) : sp.case_files[i] \notin Range(staging.records) }

C13_StagingExact ==
    sp.pc \in {"ckpt", "ckpt_dump", "ckpt_replace", "read"} => staging.records = sp.case_files

C13_Witness ==
    /\ sp.pc = "ckpt"
    /\ Len(sp.case_files) >= 2
    /\ staging.records = sp.case_files


ExcludedByOperator(p) ==
    \/ orch.only # {} /\ p \notin orch.only
    \/ p \in orch.skip

\* C17: during a run no file of a dataset that the operator's include /
\* exclude lists rule out is acquired or loaded, its ledger row stays as it
\* was when the run started, and so does the dataset's destination table.
C17_FiltersRespected ==
    \A k \in Keys :
        ExcludedByOperator(k[1]) =>
            /\ k \notin audit.attempted
            /\ k \notin audit.loaded
            /\ history[k] = audit.startHistory[k]
            /\ tables[k[1]] = audit.startTables[k[1]]

\* a run with a filter has returned after loading a file of another dataset
C17_Witness ==
    /\ orch.pc = "done"
    /\ \E k \in Keys : ExcludedByOperator(k[1])
    /\ audit.loaded # {}
    /\ \A k \in Keys : ExcludedByOperator(k[1]) => k \notin audit.attempted

-----------------------------------------------------------------------------
(* Claims about the batch loader (SpecLoad)                                *)

\* C18: the INSERT of save_batch names only live columns of the destination
\* table, and every tuple it writes has only such columns as keys; keys of
\* the source records that are not live columns appear in neither.
C18_OnlyLiveColumns ==
    /\ (load.pc = "insert" /\ load.filtered # <<>>) =>
          InsertColumns(load.filtered) \subseteq load.db_columns
    /\ \A i \in 1..Len(load.written) : DOMAIN load.written[i] \subseteq load.db_columns

\* a batch whose records carry a key that is no live column has been written
C18_Witness ==
    /\ load.pc = "returned"
    /\ load.result.success
    /\ load.written # <<>>
    /\ \E i \in 1..Len(load.batch) :
          \E k \in DOMAIN MappedRecord(load.batch[i], load.product_id) :
              k \notin load.db_columns

\* C19: a call of save_batch that ends in an error returns success = False
\* with rows_processed equal to the batch's size and rows_saved = 0, has
\* executed the INSERT at most once and has written nothing.
C19_FailureReported ==
    (load.pc = "returned" /\ load.error # "none") =>
        /\ ~load.result.success
        /\ load.result.rows_processed = Len(load.batch)
        /\ load.result.rows_saved = 0
        /\ load.attempts <= 1
        /\ load.written = <<>>

\* the INSERT of a batch of two records has failed
C19_Witness ==
    /\ load.pc = "returned"
    /\ load.error = "write"
    /\ Len(load.batch) = 2
    /\ load.attempts = 1
    /\ load.result = [success |-> FALSE, rows_processed |-> 2, rows_saved |-> 0]

-----------------------------------------------------------------------------
(* Claims about the parsers (SpecParse)                                    *)

ParsedRecords == Concat(emitted)

\* the item fields of the emitted records whose base fields are those of
\* element n, in emission order
ItemsOf(n) ==
    LET recs == SelectSeq(ParsedRecords, LAMBDA r : r.id = n)
    IN  [i \in 1..Len(recs) |-> recs[i].item]

OkIndexes == { i \in 1..Len(parse.file) : parse.file[i].kind = "ok" }

\* C15: when an XML file has been parsed to its end, every assignment
\* element with K properties has produced exactly K records, one per
\* property, and an element without properties has produced none.
C15_FanoutPerProperty ==
    (parse.pc = "done" /\ parse.mode \in XmlModes) =>
        \A i \in OkIndexes : ItemsOf(parse.file[i].id) = parse.file[i].props

\* an element with two properties has been fanned out into two records
C15_Witness ==
    /\ parse.pc = "done"
    /\ parse.mode = "fp_assign"
    /\ \E i \in OkIndexes :
          /\ Len(parse.file[i].props) = 2
          /\ ItemsOf(parse.file[i].id) = parse.file[i].props

\* the records the rows of the file normalize to, in file order
ExpectedCsvRecords ==
    IF parse.mode = "fp_csv_large"
    THEN FlatMap("fp_clean_record", parse.file)
    ELSE FlatMap("clean_record", parse.file)

\* C16: when a CSV file has been parsed to its end, the emitted batches
\* hold exactly the records its rows normalize to, each once and in order,
\* whatever the batch size and the chunk size.
C16_EveryRowInOneBatch ==
    (parse.pc = "done" /\ parse.mode \in CsvModes) =>
        ParsedRecords = ExpectedCsvRecords

\* a chunked read whose chunks are smaller than the batch has finished
C16_Witness ==
    /\ parse.pc = "done"
    /\ parse.mode = "csv_large"
    /\ parse.chunk_size < parse.batch_size
    /\ Len(parse.file) > parse.chunk_size
    /\ emitted # <<>>

\* C20: once the controller's XML parser has stopped on a file, every
\* well-formed element that follows a malformed one has been emitted in
\* some batch.
C20_MalformedNeverAborts ==
    (parse.pc \in {"done", "aborted"} /\ parse.mode \in {"xml_iter", "xml_small"}) =>
        \A i \in OkIndexes :
            (\E j \in 1..(i - 1) : parse.file[j].kind # "ok") =>
                \E k \in 1..Len(ParsedRecords) : ParsedRecords[k].id = parse.file[i].id

\* an element whose extraction raises was skipped and its successor emitted
C20_Witness ==
    /\ parse.pc = "done"
    /\ parse.mode = "xml_iter"
    /\ \E j \in 1..Len(parse.file) : parse.file[j].kind = "reject"
    /\ \A i \in OkIndexes : \E k \in 1..Len(ParsedRecords) : ParsedRecords[k].id = parse.file[i].id

-----------------------------------------------------------------------------
(* Claims about field normalization (SpecNorm)                             *)

\* eight decimal digits with a month and a day other than 00
IsDate8(chars) ==
    /\ Len(chars) = 8
    /\ isdigit(chars)
    /\ SubSeq(chars, 5, 6) # <<"0", "0">>
    /\ SubSeq(chars, 7, 8) # <<"0", "0">>

DateNormalizerRan == norm.pc \in {"xml_date", "fp_date", "converted"}

\* C21: whichever date normalizer is applied to a string without
\* surrounding blanks, the result is YYYY-MM-DD when the string is eight
\* digits with non-zero month and day, and null in every other case.
C21_DateNormalization ==
    (DateNormalizerRan /\ norm.value.t = "str" /\ strip(norm.value.s) = norm.value.s) =>
        norm.out = IF IsDate8(norm.value.s) THEN IsoDate(norm.value.s) ELSE None

\* an XML date child of eight digits has been turned into an ISO date
C21_Witness ==
    /\ norm.pc = "xml_date"
    /\ norm.value.t = "str"
    /\ IsDate8(norm.value.s)
    /\ norm.out = IsoDate(norm.value.s)

\* C22: _clean_record applied to a record it produced returns that record,
\* with the same keys and the same values.
C22_CleanRecordIdempotent ==
    norm.pc = "recleaned" => norm.recleaned = norm.cleaned

\* a raw record whose keys and values the first pass changed was cleaned twice
C22_Witness ==
    /\ norm.pc = "recleaned"
    /\ norm.recleaned = norm.cleaned
    /\ DOMAIN norm.cleaned # DOMAIN norm.record \cup {"data_source", "batch_number"}
    /\ \E k \in DOMAIN norm.cleaned \cap DOMAIN norm.record :
          norm.cleaned[k] # norm.record[k]

-----------------------------------------------------------------------------
(* Clearing and resuming from a checkpoint (SpecCkpt)                      *)

\* C23: when clear_checkpoint_and_processed stops, whether it ran to its end
\* or the process was interrupted inside it, the checkpoint and the staging
\* log either both exist or are both gone.
C23_ClearedTogether ==
    [][ (sp.pc = "clear_staging" /\ sp'.pc # "clear_staging")
        => (checkpoint'.exists <=> staging'.exists) ]_vars

\* a clear has run to its end after a successful load: both files are gone
C23_Witness ==
    /\ sp.pc \in {"finalsave", "done"}
    /\ ck.crashes = 0
    /\ ~checkpoint.exists /\ ~staging.exists
    /\ ck.staged # {} /\ ck.staged \subseteq db

\* C24: a run that started from a checkpoint of C rows and no staging log
\* has, at end of file, converted exactly the rows after the first C, each
\* once and in file order, whatever its chunk size.
C24_SkipsExactlyCheckpointRows ==
    (sp.pc = "resume" /\ sp.final /\ sp.checkpoint_rows > 0) =>
        sp.case_files = ChunkRecords(DropFirst(csv, sp.checkpoint_rows))

\* a resumed run skipped the rows of the checkpoint and converted the rest
C24_Witness ==
    /\ sp.pc = "resume" /\ sp.final
    /\ sp.checkpoint_rows > 0
    /\ sp.case_files # <<>>
    /\ sp.case_files = ChunkRecords(DropFirst(csv, sp.checkpoint_rows))

-----------------------------------------------------------------------------
(* Completion and the end of a run (SpecOrch)                              *)

\* C25: a ledger entry becomes `completed` only for a file whose data was
\* reached (the archive was extracted or the single file downloaded) and
\* whose batches were all loaded without a failure.
C25_CompletedOnlyAfterFullLoad ==
    [][\A k \in Keys :
          (history[k].status # "completed" /\ history'[k].status = "completed")
              => /\ orch.path # "none"
                 /\ k \in audit.loaded
                 /\ k \notin audit.batchFailed]_vars

\* an entry was completed, without force, after all its batches were loaded
C25_Witness ==
    /\ orch.pc = "file"
    /\ ~orch.force
    /\ \E k \in audit.loaded \ audit.batchFailed :
          /\ audit.startHistory[k].status # "completed"
          /\ history[k].status = "completed"
          /\ \A n \in NIds : (\E d \in 1..Len(DataFiles(k)) :
                                \E b \in 1..Len(DataFiles(k)[d]) : n \in DataFiles(k)[d][b])
                             => tables[k[1]][n] > 0

-----------------------------------------------------------------------------
(* The columns of a batch (SpecLoad)                                       *)

\* C28: after a successful save_batch every record of the batch has been
\* written with its own value in every live column for which it carries a
\* value, whatever keys the first record of the batch has.
C28_EveryFieldWritten ==
    (load.pc = "returned" /\ load.result.success /\ load.written # <<>>) =>
        \A i \in 1..Len(load.filtered) :
            \A k \in DOMAIN load.filtered[i] \ {"batch_number"} :
                load.filtered[i][k] # "NULL" =>
                    /\ k \in DOMAIN load.written[i]
                    /\ load.written[i][k] = load.filtered[i][k]

\* a batch of two records with different key sets has been written
C28_Witness ==
    /\ load.pc = "returned"
    /\ load.result.success
    /\ Len(load.written) = 2
    /\ DOMAIN load.filtered[1] # DOMAIN load.filtered[2]

-----------------------------------------------------------------------------
(* Concurrent runs on one file (SpecConc)                                  *)

\* C26: whatever the interleaving of the ledger statements of two runs on
\* the same file, an entry that is `completed` is never changed to
\* `processing` or `error` by a step.
C26_CompletedStaysCompleted ==
    [][conc.history[conc.key].status = "completed"
          => conc'.history[conc.key].status \notin {"processing", "error"}]_vars

\* one run has completed the file while the other run is still processing it
C26_Witness ==
    /\ conc.history[conc.key].status = "completed"
    /\ \E w \in Workers, v \in Workers :
          /\ conc.pc[w] = "done"
          /\ conc.pc[v] = "work"
          /\ ~conc.force[w] /\ ~conc.force[v]

-----------------------------------------------------------------------------
(* Progress of the remaining files of a dataset (SpecOrchFair)             *)

\* the file lies within the per-dataset file limit
WithinLimit(k) == k[2] \in Range(FilesToProcess(k[1]))

\* run r, started without force, reaches the selected dataset of file k
\* while k is not completed
PendingAtDataset(k, r) ==
    /\ runs = r
    /\ orch.pc = "product"
    /\ ~orch.force
    /\ orch.pidx <= Len(Products)
    /\ CurProduct = k[1]
    /\ ~FilteredOut(k[1])
    /\ WithinLimit(k)
    /\ history[k].status # "completed"

\* C27: without the force flag, a file within the per-dataset limit of a
\* selected dataset that is not yet completed is eventually processed: every
\* run that reaches the dataset goes on to attempt the file (unless the run
\* is interrupted), also when the dataset already has a completed file or
\* rows in its table.
C27_RemainingFilesProcessed ==
    \A k \in Keys : \A r \in 1..MaxRuns :
        PendingAtDataset(k, r) ~> (runs = r /\ (k \in audit.attempted \/ audit.interrupted))

\* a run without force has returned; a dataset it selected had a completed
\* file at the start and still has a file within the limit that is not completed
C27_Witness ==
    /\ orch.pc = "done" /\ ~orch.force /\ ~audit.interrupted
    /\ results.success
    /\ \E k \in Keys :
          /\ WithinLimit(k)
          /\ ~FilteredOut(k[1])
          /\ history[k].status # "completed"
          /\ is_product_completed_today(audit.startHistory, k[1])

-----------------------------------------------------------------------------
(* The checkpoint file across a crash (SpecCkpt)                           *)

\* C30: the checkpoint file never holds a partially written document, and
\* after a crash inside save_checkpoint it holds either the complete previous
\* checkpoint or the complete new one, which is what load_checkpoint returns.
C30_CheckpointNeverPartial ==
    /\ ~checkpoint.partial
    /\ (sp.pc = "crashed" /\ ck.inSave) =>
          /\ checkpoint \in {ck.prevCheckpoint, ck.newCheckpoint}
          /\ load_checkpoint(checkpoint) = checkpoint

\* the process was killed while json.dump was writing the second checkpoint:
\* the temporary file is partial and the first checkpoint is intact
C30_Witness ==
    /\ sp.pc = "crashed" /\ ck.inSave
    /\ tmpfile.exists /\ tmpfile.partial
    /\ checkpoint.exists
    /\ checkpoint = ck.prevCheckpoint
    /\ checkpoint # ck.newCheckpoint

=============================================================================
